---- MODULE Spec2Model ----
(***************************************************************************)
(* A model of libwget's OpenSSL back-end (src/libwget/ssl_openssl.c):      *)
(* the process-wide configuration and its three setters, the engine        *)
(* lifecycle (wget_ssl_init / wget_ssl_deinit), the revocation callback    *)
(* (OCSP and HPKP chain walks), the handshake driver wget_ssl_open, the    *)
(* shutdown wget_ssl_close and the framed I/O function ssl_transfer.       *)
(*                                                                         *)
(* The OpenSSL library, the file system, the socket and the caches are the *)
(* environment: every result they hand back is drawn from a small set.     *)
(***************************************************************************)
EXTENDS Integers, Sequences, FiniteSets, TLC

(***************************************************************************)
(* Bounds of the model.                                                    *)
(***************************************************************************)
\* setter calls in one run of SpecConfig
MaxSetterCalls == 2

\* lifecycle calls in one run of SpecLife
MaxLifeCalls == 4

\* contexts the heap can hold: SSL_CTX_new fails once they are used up
MaxCtx == 3

\* certificates in a chain handed to the revocation callback
MaxChain == 3

\* TLS states the heap holds at once
MaxSsl == 2

\* extension indices CRYPTO_get_ex_new_index hands out before it is exhausted
MaxIdx == 2

\* SSL_connect attempts within one wget_ssl_open
MaxAttempts == 2

\* SSL_shutdown calls within one wget_ssl_close
MaxShutdown == 2

\* loop iterations within one ssl_transfer
MaxTransferRounds == 2

\* API calls in a behaviour of SpecOpen
MaxOpenCalls == 3

\* the wget_ssl_init and wget_ssl_deinit calls of one thread
MaxThreadCalls == 2

(***************************************************************************)
(* Values.                                                                 *)
(***************************************************************************)
\* the null pointer of a const char *
NULL == "<null>"

\* the null pointer of an object handle, a context, a TLS state
NIL == 0

\* the keys wget_ssl_set_config_string recognizes
StringKeys ==
  {"WGET_SSL_SECURE_PROTOCOL", "WGET_SSL_CA_DIRECTORY", "WGET_SSL_CA_FILE",
   "WGET_SSL_CERT_FILE", "WGET_SSL_KEY_FILE", "WGET_SSL_CRL_FILE",
   "WGET_SSL_OCSP_SERVER", "WGET_SSL_ALPN"}

\* the keys wget_ssl_set_config_object recognizes
ObjectKeys ==
  {"WGET_SSL_OCSP_CACHE", "WGET_SSL_SESSION_CACHE", "WGET_SSL_HPKP_CACHE"}

\* the keys wget_ssl_set_config_int recognizes
IntKeys ==
  {"WGET_SSL_CHECK_CERTIFICATE", "WGET_SSL_CHECK_HOSTNAME", "WGET_SSL_PRINT_INFO",
   "WGET_SSL_CA_TYPE", "WGET_SSL_CERT_TYPE", "WGET_SSL_KEY_TYPE",
   "WGET_SSL_OCSP", "WGET_SSL_OCSP_STAPLING"}

\* every key a caller may pass: the keys of the three setters and one integer
\* that is no key at all
AllKeys == StringKeys \cup ObjectKeys \cup IntKeys \cup {"NO_SUCH_KEY"}

\* an int stored into a one-bit bool field: any non-zero value becomes 1
ToBool(v) == IF v = 0 THEN 0 ELSE 1

\* an int stored into a char field
ToChar(v) == ((v + 128) % 256) - 128

VARIABLES
  build,       \* the compile-time switches of this build
  _config,     \* static struct _config
  _init,       \* static int _init
  _ctx,        \* static SSL_CTX *_ctx (NIL or the identity of a context)
  ctxs,        \* the contexts SSL_CTX_new has handed out
  last,        \* the API call of the latest step and what it returned
  logErr,      \* error-log lines the latest API call has printed so far
  hist,        \* the calls made so far (recorded by SpecConfig and SpecLife);
               \* in SpecClose, what SSL_shutdown answered to the last close
  cb,          \* the latest run of the revocation callback: its chain and result
  init_config, \* _config as it stood when init last succeeded (history)
  tcp_ssl_session,  \* tcp->ssl_session of every connection
  ssls,        \* the TLS states SSL_new has handed out
  _ex_data_idx,     \* static __thread int _ex_data_idx
  ex_index,    \* the back-end's table of extension indices
  _crypto_ex_data,  \* static __thread CRYPTO_EX_DATA _crypto_ex_data
  session_db,  \* the hosts the TLS session cache holds a session for
  call,        \* the latest wget_ssl_open / wget_ssl_close: position and calls made
  xfer,        \* the latest ssl_transfer: position, arguments and calls made
  err_queue,   \* the reason of the last entry on the thread's back-end error
               \* queue ("none": the queue is empty)
  thr          \* the worker threads: the mutex, each thread's position and its
               \* thread-local _ex_data_idx and _crypto_ex_data (SpecThreads)

vars ==
  <<build, _config, _init, _ctx, ctxs, last, logErr, hist, cb, init_config,
    tcp_ssl_session, ssls, _ex_data_idx, ex_index, _crypto_ex_data, session_db,
    call, xfer, err_queue, thr>>

(***************************************************************************)
(* The configuration and its setters.                                      *)
(***************************************************************************)
\* the initializer of _config; ocsp and ocsp_stapling are 1 only in a build
\* with HAVE_GNUTLS_OCSP_H, alpn is set only in a build WITH_LIBNGHTTP2
DefaultConfig(have_ocsp, with_nghttp2) ==
  [secure_protocol |-> "AUTO",
   ca_directory |-> "system",
   ca_file |-> NULL,
   cert_file |-> NULL,
   key_file |-> NULL,
   crl_file |-> NULL,
   ocsp_server |-> NULL,
   alpn |-> IF with_nghttp2 THEN "h2,http/1.1" ELSE NULL,
   ocsp_cert_cache |-> NIL,
   ocsp_host_cache |-> NIL,
   tls_session_cache |-> NIL,
   hpkp_cache |-> NIL,
   ca_type |-> 0,
   cert_type |-> 0,
   key_type |-> 0,
   check_certificate |-> 1,
   check_hostname |-> 1,
   print_info |-> 0,
   ocsp |-> IF have_ocsp THEN 1 ELSE 0,
   ocsp_stapling |-> IF have_ocsp THEN 1 ELSE 0]

\* wget_ssl_set_config_string: the configuration after the call and the number
\* of error-log lines it prints
wget_ssl_set_config_string(cfg, key, value) ==
  CASE key = "WGET_SSL_SECURE_PROTOCOL" ->
         [cfg |-> [cfg EXCEPT !.secure_protocol = value], err |-> 0]
    [] key = "WGET_SSL_CA_DIRECTORY" ->
         [cfg |-> [cfg EXCEPT !.ca_directory = value], err |-> 0]
    [] key = "WGET_SSL_CA_FILE" ->
         [cfg |-> [cfg EXCEPT !.ca_file = value], err |-> 0]
    [] key = "WGET_SSL_CERT_FILE" ->
         [cfg |-> [cfg EXCEPT !.cert_file = value], err |-> 0]
    [] key = "WGET_SSL_KEY_FILE" ->
         [cfg |-> [cfg EXCEPT !.key_file = value], err |-> 0]
    [] key = "WGET_SSL_CRL_FILE" ->
         [cfg |-> [cfg EXCEPT !.crl_file = value], err |-> 0]
    [] key = "WGET_SSL_OCSP_SERVER" ->
         [cfg |-> [cfg EXCEPT !.ocsp_server = value], err |-> 0]
    [] key = "WGET_SSL_ALPN" ->
         [cfg |-> [cfg EXCEPT !.alpn = value], err |-> 0]
    [] OTHER -> [cfg |-> cfg, err |-> 1]

\* wget_ssl_set_config_object
wget_ssl_set_config_object(cfg, key, value) ==
  CASE key = "WGET_SSL_OCSP_CACHE" ->
         [cfg |-> [cfg EXCEPT !.ocsp_cert_cache = value], err |-> 0]
    [] key = "WGET_SSL_SESSION_CACHE" ->
         [cfg |-> [cfg EXCEPT !.tls_session_cache = value], err |-> 0]
    [] key = "WGET_SSL_HPKP_CACHE" ->
         [cfg |-> [cfg EXCEPT !.hpkp_cache = value], err |-> 0]
    [] OTHER -> [cfg |-> cfg, err |-> 1]

\* a slip in the integer setter: the default case falls into the last case
set_config_int_fallthrough(cfg, key, value) ==
  CASE key = "WGET_SSL_CHECK_CERTIFICATE" ->
         [cfg |-> [cfg EXCEPT !.check_certificate = ToBool(value)], err |-> 0]
    [] key = "WGET_SSL_CHECK_HOSTNAME" ->
         [cfg |-> [cfg EXCEPT !.check_hostname = ToBool(value)], err |-> 0]
    [] key = "WGET_SSL_PRINT_INFO" ->
         [cfg |-> [cfg EXCEPT !.print_info = ToBool(value)], err |-> 0]
    [] key = "WGET_SSL_CA_TYPE" ->
         [cfg |-> [cfg EXCEPT !.ca_type = ToChar(value)], err |-> 0]
    [] key = "WGET_SSL_CERT_TYPE" ->
         [cfg |-> [cfg EXCEPT !.cert_type = ToChar(value)], err |-> 0]
    [] key = "WGET_SSL_KEY_TYPE" ->
         [cfg |-> [cfg EXCEPT !.key_type = ToChar(value)], err |-> 0]
    [] key = "WGET_SSL_OCSP" ->
         [cfg |-> [cfg EXCEPT !.ocsp = ToBool(value)], err |-> 0]
    [] OTHER ->
         [cfg |-> [cfg EXCEPT !.ocsp_stapling = ToBool(value)],
          err |-> IF key = "WGET_SSL_OCSP_STAPLING" THEN 0 ELSE 1]

\* wget_ssl_set_config_int
wget_ssl_set_config_int(cfg, key, value) ==
  CASE key = "WGET_SSL_CHECK_CERTIFICATE" ->
         [cfg |-> [cfg EXCEPT !.check_certificate = ToBool(value)], err |-> 0]
    [] key = "WGET_SSL_CHECK_HOSTNAME" ->
         [cfg |-> [cfg EXCEPT !.check_hostname = ToBool(value)], err |-> 0]
    [] key = "WGET_SSL_PRINT_INFO" ->
         [cfg |-> [cfg EXCEPT !.print_info = ToBool(value)], err |-> 0]
    [] key = "WGET_SSL_CA_TYPE" ->
         [cfg |-> [cfg EXCEPT !.ca_type = ToChar(value)], err |-> 0]
    [] key = "WGET_SSL_CERT_TYPE" ->
         [cfg |-> [cfg EXCEPT !.cert_type = ToChar(value)], err |-> 0]
    [] key = "WGET_SSL_KEY_TYPE" ->
         [cfg |-> [cfg EXCEPT !.key_type = ToChar(value)], err |-> 0]
    [] key = "WGET_SSL_OCSP" ->
         [cfg |-> [cfg EXCEPT !.ocsp = ToBool(value)], err |-> 0]
    [] key = "WGET_SSL_OCSP_STAPLING" ->
         [cfg |-> [cfg EXCEPT !.ocsp_stapling = ToBool(value)], err |-> 0]
    [] OTHER -> [cfg |-> cfg, err |-> 1]

(***************************************************************************)
(* The environment of init: the file system and the back-end's answers.    *)
(***************************************************************************)
\* the entries readdir() yields for a directory that opendir() can open; a
\* directory that is not listed here cannot be opened
DirEntries ==
  [d \in {"/certs", "/empty", "/etc/ssl/certs"} |->
     CASE d = "/certs" -> <<"root.pem", "noise.txt", "INTER.PEM", "broken.pem">>
       [] d = "/empty" -> <<>>
       [] OTHER -> <<"ca.pem">>]

\* filelen >= 4 && !wget_strncasecmp_ascii(d_name + filelen - 4, ".pem", 4)
HasPemSuffix(name) == name \in {"root.pem", "INTER.PEM", "broken.pem", "ca.pem"}

\* SSL_CTX_load_verify_locations succeeds on the file
VerifyLocationLoads(name) == name \in {"root.pem", "INTER.PEM", "ca.pem", "/ca.pem"}

\* X509_load_crl_file succeeds on the file
CrlFileLoads(name) == name = "/crl.pem"

\* the strings the back-end accepts in SSL_CTX_set_cipher_list
CipherListAccepted(list) ==
  list \in {"HIGH:!aNULL:!RC4:!MD5:!SRP:!PSK", "HIGH:!aNULL:!RC4:!MD5:!SRP:!PSK:!kRSA",
            "HIGH", "auto "}

\* ASCII case folding of the priority strings the model uses
AsciiLower(s) ==
  CASE s \in {"SSL", "ssl"} -> "ssl"
    [] s \in {"TLSv1", "tlsv1"} -> "tlsv1"
    [] s \in {"TLSv1_1", "TLSV1_1"} -> "tlsv1_1"
    [] s \in {"TLSv1_2", "tlsv1_2"} -> "tlsv1_2"
    [] s \in {"TLSv1_3", "tlsV1_3"} -> "tlsv1_3"
    [] s \in {"AUTO", "auto", "Auto"} -> "auto"
    [] s \in {"PFS", "pfs"} -> "pfs"
    [] OTHER -> s

\* !wget_strcasecmp_ascii(a, b), where a may be NULL and b is a literal
EqualNoCase(a, b) == a # NULL /\ AsciiLower(a) = AsciiLower(b)

\* what the back-end answers during one openssl_init
InitEnvs ==
  [ctx_new_ok : BOOLEAN,        \* SSL_CTX_new returns a context
   default_paths_ok : BOOLEAN,  \* SSL_CTX_set_default_verify_paths succeeds
   min_version_ok : BOOLEAN,    \* SSL_CTX_set_min_proto_version succeeds
   store_ok : BOOLEAN]          \* SSL_CTX_get_cert_store returns the store

(***************************************************************************)
(* Engine lifecycle.                                                       *)
(***************************************************************************)
\* the slot of a context that SSL_CTX_new has not handed out yet
NoCtx ==
  [state |-> "unalloc", verify |-> "NONE", revocation_cb |-> FALSE,
   min_proto |-> "DEFAULT", ciphers |-> "DEFAULT",
   trust_default |-> FALSE, trust_loaded |-> 0, crl |-> FALSE, ca_file |-> FALSE]

\* a context as SSL_CTX_new(TLS_client_method()) returns it
NewCtx == [NoCtx EXCEPT !.state = "live"]

\* a context after SSL_CTX_free has dropped the engine's reference to it
FreedCtx == [NoCtx EXCEPT !.state = "freed"]

\* openssl_load_crl: the error code and whether the store now checks CRLs
openssl_load_crl(crl_file) ==
  IF ~CrlFileLoads(crl_file)
    THEN [ret |-> "WGET_E_UNKNOWN", crl |-> FALSE]
    ELSE [ret |-> "WGET_E_SUCCESS", crl |-> TRUE]

\* the value of openssl_ciphers before SSL_CTX_set_cipher_list
PriorityCiphers(prio) ==
  IF EqualNoCase(prio, "SSL") \/ EqualNoCase(prio, "TLSv1")
     \/ EqualNoCase(prio, "TLSv1_1") \/ EqualNoCase(prio, "TLSv1_3")
    THEN "HIGH:!aNULL:!RC4:!MD5:!SRP:!PSK"
    ELSE IF EqualNoCase(prio, "PFS")
      THEN "HIGH:!aNULL:!RC4:!MD5:!SRP:!PSK:!kRSA"
      ELSE IF prio # NULL /\ ~EqualNoCase(prio, "AUTO") /\ ~EqualNoCase(prio, "TLSv1_2")
        THEN prio
        ELSE "HIGH:!aNULL:!RC4:!MD5:!SRP:!PSK"

\* a selector whose TLSv1_3 branch asks for TLS 1.3 on every build
PriorityMinVersion_any_build(prio, bld) ==
  CASE EqualNoCase(prio, "SSL") -> "SSL3_VERSION"
    [] EqualNoCase(prio, "TLSv1") -> "TLS1_VERSION"
    [] EqualNoCase(prio, "TLSv1_1") -> "TLS1_1_VERSION"
    [] EqualNoCase(prio, "TLSv1_3") -> "TLS1_3_VERSION"
    [] OTHER -> "none"

\* the version SET_MIN_VERSION asks for, or "none" when the branch taken has no
\* SET_MIN_VERSION
PriorityMinVersion(prio, bld) ==
  CASE EqualNoCase(prio, "SSL") -> "SSL3_VERSION"
    [] EqualNoCase(prio, "TLSv1") -> "TLS1_VERSION"
    [] EqualNoCase(prio, "TLSv1_1") -> "TLS1_1_VERSION"
    [] EqualNoCase(prio, "TLSv1_3") /\ bld.openssl_1_1_1 -> "TLS1_3_VERSION"
    [] OTHER -> "none"

\* openssl_set_priorities: the return value, the protocol floor and the cipher
\* list of the context afterwards, and the error-log lines printed
openssl_set_priorities(ctx, prio, bld, env) ==
  LET want == PriorityMinVersion(prio, bld)
      ciphers == PriorityCiphers(prio)
  IN  IF want # "none" /\ ~env.min_version_ok
        THEN [ret |-> "WGET_E_UNKNOWN", err |-> 0,
              ctx |-> [ctx EXCEPT !.min_proto = "TLS1_2_VERSION"]]
        ELSE LET floor == IF want = "none" THEN "TLS1_2_VERSION" ELSE want
             IN  IF ~CipherListAccepted(ciphers)
                   THEN [ret |-> "WGET_E_INVALID", err |-> 1,
                         ctx |-> [ctx EXCEPT !.min_proto = floor]]
                   ELSE [ret |-> "WGET_E_SUCCESS", err |-> 0,
                         ctx |-> [ctx EXCEPT !.min_proto = floor, !.ciphers = ciphers]]

\* the loop of openssl_load_trust_files_from_directory over the entries
RECURSIVE CountLoaded(_)
CountLoaded(entries) ==
  IF entries = <<>> THEN 0
  ELSE (IF HasPemSuffix(Head(entries)) /\ VerifyLocationLoads(Head(entries))
          THEN 1 ELSE 0) + CountLoaded(Tail(entries))

\* openssl_load_trust_files_from_directory: the number of files loaded, which
\* is 0 as well when opendir fails
openssl_load_trust_files_from_directory(dirname) ==
  IF dirname \in DOMAIN DirEntries THEN CountLoaded(DirEntries[dirname]) ELSE 0

\* openssl_load_trust_files: retval, whether the default paths were taken, and
\* the error-log lines printed
openssl_load_trust_files(dir, env) ==
  IF dir = "system" /\ env.default_paths_ok
    THEN [retval |-> 0, default |-> TRUE, err |-> 0]
    ELSE LET d == IF dir = "system" THEN "/etc/ssl/certs" ELSE dir
             n == openssl_load_trust_files_from_directory(d)
         IN  [retval |-> n, default |-> FALSE, err |-> IF n = 0 THEN 1 ELSE 0]

\* a string option that is set and not empty: p && *p
NonEmpty(p) == p # NULL /\ p # ""

\* the part of openssl_init that runs when certificate checking is enabled and
\* the store was obtained: trust files, CRL, verify mode, CA file, the
\* revocation callback and the priorities
openssl_init_checked(ctx, cfg, bld, env) ==
  LET has_dir == NonEmpty(cfg.ca_directory)
      tf == IF has_dir THEN openssl_load_trust_files(cfg.ca_directory, env)
                       ELSE [retval |-> 0, default |-> FALSE, err |-> 0]
      try_crl == has_dir /\ cfg.crl_file # NULL
      crl == IF try_crl THEN openssl_load_crl(cfg.crl_file)
                        ELSE [ret |-> "WGET_E_SUCCESS", crl |-> FALSE]
      c1 == [ctx EXCEPT !.trust_default = tf.default, !.trust_loaded = tf.retval,
                        !.crl = crl.crl]
  IN  IF crl.ret # "WGET_E_SUCCESS"
        THEN [ret |-> crl.ret, err |-> tf.err + 1, ctx |-> c1]
        ELSE LET ca_try == NonEmpty(cfg.ca_file)
                 ca_ok == ca_try /\ VerifyLocationLoads(cfg.ca_file)
                 c2 == [c1 EXCEPT
                          !.verify = IF has_dir THEN "PEER_FAIL_IF_NO_PEER_CERT" ELSE @,
                          !.ca_file = ca_ok,
                          !.revocation_cb = TRUE]
                 pr == openssl_set_priorities(c2, cfg.secure_protocol, bld, env)
             IN  [ret |-> pr.ret,
                  err |-> tf.err + (IF ca_try /\ ~ca_ok THEN 1 ELSE 0) + pr.err,
                  ctx |-> pr.ctx]

\* openssl_init: the return value, the context as configured so far and the
\* error-log lines printed
openssl_init(ctx, cfg, bld, env) ==
  IF cfg.check_certificate = 0
    THEN [ret |-> "WGET_E_SUCCESS", err |-> 0, ctx |-> [ctx EXCEPT !.verify = "NONE"]]
    ELSE IF ~env.store_ok
      THEN [ret |-> "WGET_E_UNKNOWN", err |-> 1, ctx |-> ctx]
      ELSE openssl_init_checked(ctx, cfg, bld, env)

\* the contexts SSL_CTX_new can still hand out
FreeCtxIds == {c \in 1..MaxCtx : ctxs[c].state = "unalloc"}

\* the context SSL_CTX_new hands out next
NextCtxId == CHOOSE c \in FreeCtxIds : \A d \in FreeCtxIds : c <= d

\* wget_ssl_init under the lifecycle mutex: what it leaves in _init, _ctx, the
\* contexts, and the error-log lines it prints
wget_ssl_init(env) ==
  IF _init # 0
    THEN [init |-> _init, ctx |-> _ctx, ctxs |-> ctxs, err |-> 0]
    ELSE IF ~env.ctx_new_ok \/ FreeCtxIds = {}
      THEN [init |-> _init, ctx |-> NIL, ctxs |-> ctxs, err |-> 1]
      ELSE LET c == NextCtxId
               r == openssl_init(NewCtx, _config, build, env)
           IN  IF r.ret = "WGET_E_SUCCESS"
                 THEN [init |-> _init + 1, ctx |-> c,
                       ctxs |-> [ctxs EXCEPT ![c] = r.ctx], err |-> r.err]
                 ELSE [init |-> _init, ctx |-> c,
                       ctxs |-> [ctxs EXCEPT ![c] = r.ctx], err |-> r.err + 1]

\* a deinit that decrements the counter whatever its value
wget_ssl_deinit_unguarded ==
  [init |-> _init - 1,
   ctxs |-> IF _init = 1 THEN [ctxs EXCEPT ![_ctx] = FreedCtx] ELSE ctxs]

\* wget_ssl_deinit under the lifecycle mutex: what it leaves in _init and in
\* the contexts (_ctx keeps pointing at the released context)
wget_ssl_deinit ==
  [init |-> IF _init > 0 THEN _init - 1 ELSE _init,
   ctxs |-> IF _init = 1 THEN [ctxs EXCEPT ![_ctx] = FreedCtx] ELSE ctxs]

(***************************************************************************)
(* The revocation callback: the OCSP and the HPKP walk over the chain.     *)
(* A chain of n certificates is certs[0] (the leaf) .. certs[n-1]; what    *)
(* the OCSP responder and the HPKP cache answer for each certificate is    *)
(* the environment's choice.                                               *)
(***************************************************************************)
\* what the OCSP exchange for one certificate can end in: the request fails
\* (send_ocsp_request returns NULL), or the response names a certificate status
OcspAnswers == {"good", "revoked", "unknown", "no_response"}

\* what the HPKP step for one certificate can meet: i2d_PUBKEY fails, or the
\* cache answers match, no pin on file, lookup error, mismatch
HpkpAnswers == {"match", "nopin", "error", "mismatch", "nospki"}

\* wget_hpkp_db_check_pubkey's return value for an answer of the cache
wget_hpkp_db_check_pubkey(answer) ==
  CASE answer = "match" -> 1
    [] answer = "nopin" -> 0
    [] answer = "error" -> -1
    [] answer = "mismatch" -> -2

\* check_ocsp_response: only a status of good passes (and then only with a
\* current, correctly signed response, which "good" stands for here)
check_ocsp_response(answer) == IF answer = "good" THEN 0 ELSE -1

\* verify_one_ocsp
verify_one_ocsp(answer) ==
  IF answer = "no_response" THEN -1
  ELSE IF check_ocsp_response(answer) < 0 THEN -1 ELSE 0

\* the loop of verify_ocsp from index i on, with retval still 1.  pairs
\* collects the (certificate, issuer) indices handed to verify_one_ocsp.  An
\* index of n or more reads NULL from the chain; passing NULL on into OpenSSL
\* is undefined: ub says whether this build crashes there or reports a failure.
RECURSIVE OcspWalk(_, _, _, _, _)
OcspWalk(n, answers, ub, i, pairs) ==
  IF i + 1 = n
    THEN [ret |-> 1, crashed |-> FALSE, pairs |-> pairs]
    ELSE LET p == Append(pairs, <<i, i + 2>>)
         IN  IF i >= n \/ i + 2 >= n
               THEN [ret |-> 0, crashed |-> (ub = "crash"), pairs |-> p]
               ELSE IF verify_one_ocsp(answers[i + 1]) < 0
                 THEN [ret |-> 0, crashed |-> FALSE, pairs |-> p]
                 ELSE OcspWalk(n, answers, ub, i + 2, p)

\* verify_ocsp on a chain of n certificates; answers[k+1] is the responder's
\* answer about certs[k]
verify_ocsp(n, answers, ub) == OcspWalk(n, answers, ub, 0, <<>>)

\* a pinning step with the results for match and for no pin swapped
verify_one_hpkp_swapped(answer) ==
  IF answer = "nospki" THEN -1
  ELSE LET retval == wget_hpkp_db_check_pubkey(answer)
       IN  CASE retval = 1 -> 1
             [] retval = 0 -> 0
             [] retval = -1 -> 0
             [] retval = -2 -> -1

\* verify_one_hpkp
verify_one_hpkp(answer) ==
  IF answer = "nospki" THEN -1
  ELSE LET retval == wget_hpkp_db_check_pubkey(answer)
       IN  CASE retval = 1 -> 0
             [] retval = 0 -> 1
             [] retval = -1 -> 0
             [] retval = -2 -> -1

\* the loop of verify_hpkp from index i on: pin_ok and the number of
\* certificates looked up
RECURSIVE HpkpWalk(_, _, _, _)
HpkpWalk(n, answers, i, pin_ok) ==
  IF i >= n THEN [pin_ok |-> pin_ok, looked |-> i]
  ELSE LET retval == verify_one_hpkp(answers[i + 1])
           ok == IF retval >= 0 THEN 1 ELSE pin_ok
       IN  IF retval = 1 THEN [pin_ok |-> ok, looked |-> i + 1]
           ELSE HpkpWalk(n, answers, i + 1, ok)

\* a pinning walk that starts from pin_ok = 1
hpkp_starts_ok(n, answers) == [pin_ok |-> 1, looked |-> n]

\* verify_hpkp on a chain of n certificates; answers[k+1] is what the HPKP
\* step meets for certs[k]
verify_hpkp(n, answers) == HpkpWalk(n, answers, 0, 0)

\* a callback that is content when either check passes
revocation_check_either(cfg, n, ocsp_answers, hpkp_answers, ub) ==
  LET o == IF cfg.ocsp # 0 THEN verify_ocsp(n, ocsp_answers, ub)
           ELSE [ret |-> 1, crashed |-> FALSE, pairs |-> <<>>]
      h == IF cfg.hpkp_cache # NIL /\ ~o.crashed THEN verify_hpkp(n, hpkp_answers)
           ELSE [pin_ok |-> 1, looked |-> 0]
  IN  [ret |-> IF o.ret = 1 \/ h.pin_ok = 1 THEN 1 ELSE 0,
       crashed |-> o.crashed,
       ocsp_ok |-> o.ret,
       hpkp_ok |-> h.pin_ok,
       pairs |-> o.pairs,
       looked |-> h.looked,
       err |-> IF cfg.hpkp_cache # NIL /\ ~o.crashed /\ h.pin_ok = 0 THEN 1 ELSE 0]

\* _openssl_revocation_check_fn: the value returned (unless the callback
\* crashed), the two decisions, and the error-log lines printed
_openssl_revocation_check_fn(cfg, n, ocsp_answers, hpkp_answers, ub) ==
  LET o == IF cfg.ocsp # 0 THEN verify_ocsp(n, ocsp_answers, ub)
           ELSE [ret |-> 1, crashed |-> FALSE, pairs |-> <<>>]
      h == IF cfg.hpkp_cache # NIL /\ ~o.crashed THEN verify_hpkp(n, hpkp_answers)
           ELSE [pin_ok |-> 1, looked |-> 0]
  IN  [ret |-> IF o.ret = 1 /\ h.pin_ok = 1 THEN 1 ELSE 0,
       crashed |-> o.crashed,
       ocsp_ok |-> o.ret,
       hpkp_ok |-> h.pin_ok,
       pairs |-> o.pairs,
       looked |-> h.looked,
       err |-> IF cfg.hpkp_cache # NIL /\ ~o.crashed /\ h.pin_ok = 0 THEN 1 ELSE 0]

\* no callback has run yet
NoCallback ==
  [active |-> FALSE, n |-> 0, ocsp |-> <<>>, hpkp |-> <<>>, ub |-> "fail",
   ret |-> 1, crashed |-> FALSE, ocsp_ok |-> 1, hpkp_ok |-> 1,
   pairs |-> <<>>, looked |-> 0]

\* the sequences of length n over S
SeqsOfLen(S, n) == [1..n -> S]

(***************************************************************************)
(* Connections: the handshake driver, the session cache and the shutdown.  *)
(***************************************************************************)
\* the TCP connections of the caller: descriptor, host name and connect
\* timeout in milliseconds (the third one has no socket)
Connections ==
  <<[sockfd |-> 3, ssl_hostname |-> "a.example", connect_timeout |-> 0],
    [sockfd |-> 4, ssl_hostname |-> "pinned.example", connect_timeout |-> 200],
    [sockfd |-> -1, ssl_hostname |-> "a.example", connect_timeout |-> 0]>>

TcpIds == DOMAIN Connections

\* a TLS state SSL_new has not handed out
NoSsl ==
  [state |-> "unalloc", ctx |-> NIL, fd |-> -1, host |-> NULL,
   hostflags |-> "DEFAULT", sni |-> NULL, session |-> NULL]

\* a TLS state after SSL_free
FreedSsl == [NoSsl EXCEPT !.state = "freed"]

\* the zero-initialized thread-local container
BlankExData == [state |-> "blank", val |-> NULL]

\* no open or close has been called yet
NoCall ==
  [op |-> "none", pc |-> "idle", t |-> NIL, ssl |-> NIL, attempts |-> 0,
   trace |-> <<>>, ret |-> "", resumed |-> 0, saved |-> 0, cb_ran |-> FALSE,
   looked |-> 0, fault |-> "none", error |-> "none", reason |-> "none",
   ready |-> "none", spin |-> 0, stale |-> "none", pushed |-> "none"]

\* no transfer has been called yet
NoTransfer ==
  [pc |-> "idle", want |-> "none", session |-> NIL, timeout |-> 0, count |-> 0,
   ops |-> {}, waits |-> 0, calls |-> 0, result |-> "none", ret |-> "", pub |-> "",
   ready |-> "none", spin |-> 0]

\* an argument check that refuses only a null connection
open_arguments_null_only(t) == t = NIL

\* wget_ssl_open, first statement: a null connection or a negative descriptor
open_arguments_invalid(t) == t = NIL \/ Connections[t].sockfd < 0

\* the TLS states SSL_new can hand out: memory never used or given back
FreeSslIds == {s \in 1..MaxSsl : ssls[s].state # "live"}

NextSslId == CHOOSE s \in FreeSslIds : \A u \in FreeSslIds : s <= u

\* the extension indices CRYPTO_get_ex_new_index has not handed out yet (it
\* never hands one out twice)
FreeIdx == {i \in 0..(MaxIdx - 1) : ex_index[i] = "unalloc"}

NextIdx == CHOOSE i \in FreeIdx : \A j \in FreeIdx : i <= j

\* the back-end calls of wget_ssl_open before host verification is set up, in
\* the order of the code; each of them fails the open when it fails
PrologueCalls ==
  <<"SSL_new", "SSL_set_fd", "CRYPTO_get_ex_new_index", "CRYPTO_new_ex_data",
    "CRYPTO_set_ex_data">>

\* the position of a call in the prologue; one past the end when none fails
PrologueIndex(name) ==
  IF \E i \in DOMAIN PrologueCalls : PrologueCalls[i] = name
    THEN CHOOSE i \in DOMAIN PrologueCalls : PrologueCalls[i] = name
    ELSE Len(PrologueCalls) + 1

\* a host verification that follows the configuration as init found it
host_verification_of_init(cfg, hostname) ==
  IF init_config.check_hostname # 0
    THEN [host |-> hostname, hostflags |-> "X509_CHECK_FLAG_NO_PARTIAL_WILDCARDS",
          calls |-> <<"SSL_set1_host", "SSL_set_hostflags">>, info |-> 0]
    ELSE [host |-> NULL, hostflags |-> "X509_CHECK_FLAG_NEVER_CHECK_SUBJECT",
          calls |-> <<"SSL_set_hostflags">>, info |-> 1]

\* wget_ssl_open, "Enable host name verification, if requested": the expected
\* host and the flags installed on the TLS state, and the calls made
host_verification(cfg, hostname) ==
  IF cfg.check_hostname # 0
    THEN [host |-> hostname, hostflags |-> "X509_CHECK_FLAG_NO_PARTIAL_WILDCARDS",
          calls |-> <<"SSL_set1_host", "SSL_set_hostflags">>, info |-> 0]
    ELSE [host |-> NULL, hostflags |-> "X509_CHECK_FLAG_NEVER_CHECK_SUBJECT",
          calls |-> <<"SSL_set_hostflags">>, info |-> 1]

\* a resume step that never finds a cached session
resume_never_finds(cfg, db, hostname, fault, bld) == [ret |-> 0, session |-> NULL]

\* a resume step that reports success although SSL_set_session failed
resume_ignores_install_failure(cfg, db, hostname, fault, bld) ==
  IF cfg.tls_session_cache = NIL THEN [ret |-> 0, session |-> NULL]
  ELSE IF hostname \in db
    THEN IF fault = "d2i_SSL_SESSION" THEN [ret |-> -1, session |-> NULL]
         ELSE IF bld.openssl_1_1_1 /\ fault = "SSL_SESSION_is_resumable"
           THEN [ret |-> -1, session |-> NULL]
         ELSE [ret |-> 1, session |-> IF fault = "SSL_set_session" THEN NULL ELSE hostname]
    ELSE [ret |-> 0, session |-> NULL]

\* ssl_resume_session: the return value and the session installed on the TLS
\* state; fault names the back-end call that fails, if one does
ssl_resume_session(cfg, db, hostname, fault, bld) ==
  IF cfg.tls_session_cache = NIL THEN [ret |-> 0, session |-> NULL]
  ELSE IF hostname \in db
    THEN IF fault = "d2i_SSL_SESSION" THEN [ret |-> -1, session |-> NULL]
         ELSE IF bld.openssl_1_1_1 /\ fault = "SSL_SESSION_is_resumable"
           THEN [ret |-> -1, session |-> NULL]
         ELSE IF fault = "SSL_set_session" THEN [ret |-> -1, session |-> NULL]
         ELSE [ret |-> 1, session |-> hostname]
    ELSE [ret |-> 0, session |-> NULL]

\* ssl_save_session: the return value and the cache afterwards
ssl_save_session(cfg, db, hostname, fault) ==
  IF fault = "SSL_get0_session" \/ cfg.tls_session_cache = NIL
    THEN [ret |-> 0, db |-> db]
    ELSE IF fault = "i2d_SSL_SESSION" THEN [ret |-> 0, db |-> db]
         ELSE [ret |-> 1, db |-> db \cup {hostname}]

\* an open that sets up nothing before the handshake
before_handshake_nothing(cfg, hostname) == <<>>

\* wget_ssl_open between the extension slot and the handshake loop: the
\* calls made, in order (SNI is sent only for a non-null host name)
before_handshake(cfg, hostname) ==
  host_verification(cfg, hostname).calls
    \o (IF hostname # NULL THEN <<"SSL_set_tlsext_host_name">> ELSE <<>>)
    \o <<"ssl_resume_session">>

\* a wait that takes a readiness result of 0 for ready
wait_never_times_out(ready) ==
  CASE ready = "ready" -> "READY"
    [] ready = "timeout" -> "READY"
    [] ready = "error" -> "READY_ERROR"

\* wait_2_read_and_write: a readiness result of 0 becomes the timeout error,
\* a negative one is handed on, a positive one means ready
wait_2_read_and_write(ready) ==
  CASE ready = "ready" -> "READY"
    [] ready = "timeout" -> "WGET_E_TIMEOUT"
    [] ready = "error" -> "READY_ERROR"

\* the results of wait_2_read_and_write that are negative
NegativeWait == {"WGET_E_TIMEOUT", "READY_ERROR"}

\* a reason on the error queue other than certificate verify failed, left
\* by a back-end call that failed outside a handshake
OtherReason == "ERR_R_OTHER"

\* what one SSL_connect can come to, the revocation callback left aside: it
\* succeeds, wants more I/O, fails in the TLS layer over the certificate or
\* over something else, or fails in a system call.  A system call that fails
\* puts no entry on the thread's error queue.
ConnectOutcomes ==
  {"ok", "SSL_ERROR_WANT_READ", "SSL_ERROR_WANT_WRITE", "verify_failed",
   "SSL_ERROR_SSL", "SSL_ERROR_SYSCALL"}

\* a handshake that leaves the entries of earlier operations on the queue
SSL_connect_keeps_queue(queue, pushed) == IF pushed = "none" THEN queue ELSE pushed

\* the last entry of the error queue after retval = SSL_connect(ssl): the
\* back-end's handshake empties the thread's queue when it is entered, so
\* what ERR_peek_last_error finds is what this handshake put there, if
\* anything
ERR_peek_last_error(queue, pushed) == pushed

\* SSL_connect on a TLS state made from ctx: when the handshake gets as far as
\* the server's certificate (a chain of one), the back-end runs the
\* revocation callback if the context has one, and a verdict of 0 fails the
\* verification unless the verify mode is none.  The return value, the
\* SSL_get_error class, the reason it put on the error queue, whether the
\* callback ran and how many HPKP lookups it made.
SSL_connect(ctx, cfg, outcome, hpkp_answer) ==
  LET failed(error, reason) ==
        [retval |-> -1, error |-> error, reason |-> reason, err |-> 0,
         cb_ran |-> FALSE, looked |-> 0]
      verdict == IF ctx.revocation_cb
                   THEN _openssl_revocation_check_fn(cfg, 1, <<"good">>,
                                                     <<hpkp_answer>>, "fail")
                   ELSE [ret |-> 1, err |-> 0, looked |-> 0]
  IN  CASE outcome = "ok" ->
             IF verdict.ret = 0 /\ ctx.verify # "NONE"
               THEN [retval |-> -1, error |-> "SSL_ERROR_SSL",
                     reason |-> "SSL_R_CERTIFICATE_VERIFY_FAILED",
                     err |-> verdict.err, cb_ran |-> ctx.revocation_cb,
                     looked |-> verdict.looked]
               ELSE [retval |-> 1, error |-> "SSL_ERROR_NONE", reason |-> "none",
                     err |-> verdict.err, cb_ran |-> ctx.revocation_cb,
                     looked |-> verdict.looked]
        [] outcome = "verify_failed" ->
             failed("SSL_ERROR_SSL", "SSL_R_CERTIFICATE_VERIFY_FAILED")
        [] outcome = "SSL_ERROR_SSL" ->
             failed("SSL_ERROR_SSL", "SSL_R_SSLV3_ALERT_HANDSHAKE_FAILURE")
        [] outcome = "SSL_ERROR_SYSCALL" -> failed("SSL_ERROR_SYSCALL", "none")
        [] OTHER -> failed(outcome, "none")

\* SSL_free on the TLS state s
SSL_free(h, s) == [h EXCEPT ![s] = FreedSsl]

\* a bail that leaves the TLS state allocated
bail_without_free(h, s) == h

\* wget_ssl_open, label bail: the TLS state is freed if one was allocated
bail(h, s) == IF s # NIL THEN SSL_free(h, s) ELSE h

\* an end of the handshake that saves the session whatever the result
handshake_end_saves_always(res, cfg, db, hostname, fault) ==
  [ret |-> IF res.retval > 0 THEN "WGET_E_SUCCESS" ELSE "WGET_E_HANDSHAKE",
   saved |-> 1, db |-> db \cup {hostname}]

\* an end of the handshake that reports every failure as a handshake error
handshake_end_never_certificate(res, cfg, db, hostname, fault) ==
  IF res.retval <= 0
    THEN [ret |-> "WGET_E_HANDSHAKE", saved |-> 0, db |-> db]
    ELSE [ret |-> "WGET_E_SUCCESS", saved |-> 0, db |-> db]

\* wget_ssl_open after the handshake loop: the error code for a failed
\* handshake, or the session saved and success
handshake_end(res, cfg, db, hostname, fault) ==
  IF res.retval <= 0
    THEN [ret |-> IF res.reason = "SSL_R_CERTIFICATE_VERIFY_FAILED"
                    THEN "WGET_E_CERTIFICATE" ELSE "WGET_E_HANDSHAKE",
          saved |-> 0, db |-> db]
    ELSE LET sv == ssl_save_session(cfg, db, hostname, fault)
         IN  [ret |-> "WGET_E_SUCCESS", saved |-> sv.ret, db |-> sv.db]

\* a shutdown loop that goes on until SSL_shutdown returns a positive value
RECURSIVE SSL_shutdown_until_positive(_)
SSL_shutdown_until_positive(results) ==
  IF Len(results) = 1 \/ Head(results) > 0
    THEN 1 ELSE 1 + SSL_shutdown_until_positive(Tail(results))

\* wget_ssl_close, the do-while around SSL_shutdown: the number of calls made
\* when the back-end answers results, one value per call
RECURSIVE SSL_shutdown_loop(_)
SSL_shutdown_loop(results) ==
  IF Len(results) = 1 \/ Head(results) # 0
    THEN 1 ELSE 1 + SSL_shutdown_loop(Tail(results))

\* a close that shuts down even without a session
close_calls_always(session, shutdowns) ==
  [i \in 1..shutdowns |-> "SSL_shutdown"]
    \o <<"CRYPTO_free_ex_data", "CRYPTO_free_ex_index", "SSL_free">>

\* wget_ssl_close: the back-end calls made for a slot holding session, when
\* SSL_shutdown returns non-zero at its shutdowns-th call
close_calls(session, shutdowns) ==
  IF session # NIL
    THEN [i \in 1..shutdowns |-> "SSL_shutdown"]
           \o <<"CRYPTO_free_ex_data", "CRYPTO_free_ex_index", "SSL_free">>
    ELSE <<>>

(***************************************************************************)
(* Framed I/O: ssl_transfer and its two public wrappers.                   *)
(***************************************************************************)
\* the largest int of the platform
INT_MAX == 2147483647

\* what one SSL_read or SSL_write can come to: some bytes, zero, a negative
\* result that SSL_get_error classifies as want-read, want-write or else
TransferResults ==
  {"BYTES", "0", "SSL_ERROR_WANT_READ", "SSL_ERROR_WANT_WRITE", "SSL_ERROR_SSL",
   "SSL_ERROR_SYSCALL"}

\* the negative results that are neither want-read nor want-write
OtherErrors == {"SSL_ERROR_SSL", "SSL_ERROR_SYSCALL"}

\* ssl_transfer before its loop: the value returned at once, or the clamped
\* arguments the loop starts with (count arrives as an int, so the clamp to
\* INT_MAX never bites)
ssl_transfer_entry(want, session, fd, timeout, count) ==
  IF count = 0 THEN [done |-> TRUE, ret |-> "0"]
  ELSE IF session = NIL THEN [done |-> TRUE, ret |-> "WGET_E_INVALID"]
  ELSE IF fd < 0 THEN [done |-> TRUE, ret |-> "WGET_E_UNKNOWN"]
  ELSE [done |-> FALSE, ret |-> "",
        count |-> IF count > INT_MAX THEN INT_MAX ELSE count,
        timeout |-> IF timeout < -1 THEN -1 ELSE timeout,
        ops |-> {want}]

\* a turn of the loop that waits for readiness whatever the timeout
ssl_transfer_turn_waits(timeout, ops, ready, result) ==
  [done |-> TRUE, waited |-> 1, called |-> 0, ops |-> ops,
   ret |-> IF ready = "ready" THEN "0" ELSE "WGET_E_TIMEOUT"]

\* a turn of the loop that returns 0 when the wait times out
ssl_transfer_turn_zero_on_timeout(timeout, ops, ready, result) ==
  IF timeout # 0 /\ ready = "timeout"
    THEN [done |-> TRUE, waited |-> 1, called |-> 0, ops |-> ops, ret |-> "0"]
    ELSE [done |-> TRUE, waited |-> IF timeout # 0 THEN 1 ELSE 0, called |-> 0,
          ops |-> ops, ret |-> "READY_ERROR"]

\* one turn of the loop of ssl_transfer: whether it waited, whether it called
\* SSL_read or SSL_write, the readiness mask afterwards, and the value
\* returned if the turn ends the call
ssl_transfer_turn(timeout, ops, ready, result) ==
  IF timeout # 0 /\ ready = "error"
    THEN [done |-> TRUE, waited |-> 1, called |-> 0, ops |-> ops, ret |-> "READY_ERROR"]
  ELSE IF timeout # 0 /\ ready = "timeout"
    THEN [done |-> TRUE, waited |-> 1, called |-> 0, ops |-> ops,
          ret |-> "WGET_E_TIMEOUT"]
  ELSE LET waited == IF timeout # 0 THEN 1 ELSE 0
       IN  IF result \in {"SSL_ERROR_WANT_READ", "SSL_ERROR_WANT_WRITE"}
             THEN [done |-> timeout = 0, waited |-> waited, called |-> 1,
                   ops |-> {"WGET_IO_WRITABLE", "WGET_IO_READABLE"}, ret |-> "0"]
           ELSE IF result \in OtherErrors
             THEN [done |-> TRUE, waited |-> waited, called |-> 1, ops |-> ops,
                   ret |-> "WGET_E_HANDSHAKE"]
           ELSE [done |-> TRUE, waited |-> waited, called |-> 1, ops |-> ops,
                 ret |-> result]

\* a wrapper that hands on whatever ssl_transfer returned
wrapper_passes_through(retval) == retval

\* wget_ssl_read_timeout and wget_ssl_write_timeout: what the wrapper makes of
\* the value ssl_transfer returned
transfer_wrapper(retval) ==
  IF retval = "WGET_E_HANDSHAKE" THEN "WGET_E_UNKNOWN" ELSE retval

(***************************************************************************)
(* The initial state: the static initializers and the library constructor. *)
(***************************************************************************)
\* the builds considered: with or without HAVE_GNUTLS_OCSP_H, with or without
\* an OpenSSL of at least 1.1.1, and WITH_LIBNGHTTP2 (which only sets the
\* default of alpn, a field no function reads)
(***************************************************************************)
(* Threads: the lifecycle mutex and the thread-local extension slot.       *)
(***************************************************************************)
\* the worker threads of the process; thread th drives connection th
Threads == {1, 2}

\* storage that every thread of the process shares
process_wide(th) == 1

\* static __thread: a thread's accesses to _ex_data_idx and _crypto_ex_data
\* go to the thread's own copy
thread_local(th) == th

\* a lock that never makes its caller wait
mutex_lock_never_waits(owner) == TRUE

\* wget_thread_mutex_lock(_mutex) returns once no thread holds the mutex
wget_thread_mutex_lock(owner) == owner = NIL

\* a zero-initialized container: no slot holds a value
BlankSlots == [i \in 0..(MaxIdx - 1) |-> NULL]

\* no thread has called anything yet: the thread-locals are zero-initialized
NoThreads ==
  [mutex |-> NIL,
   pc |-> [th \in Threads |-> "idle"],
   calls |-> [th \in Threads |-> 0],
   idx |-> [c \in Threads |-> 0],
   data |-> [c \in Threads |-> BlankSlots],
   read |-> [th \in Threads |-> "none"]]

Builds ==
  [have_gnutls_ocsp : BOOLEAN, with_libnghttp2 : {TRUE}, openssl_1_1_1 : BOOLEAN]

Init ==
  /\ build \in Builds
  /\ _config = DefaultConfig(build.have_gnutls_ocsp, build.with_libnghttp2)
  /\ _init = 0
  /\ _ctx = NIL
  /\ ctxs = [c \in 1..MaxCtx |-> NoCtx]
  /\ last = [op |-> "none", key |-> "", ret |-> ""]
  /\ logErr = 0
  /\ hist = <<>>
  /\ cb = NoCallback
  /\ init_config = _config
  /\ tcp_ssl_session = [t \in TcpIds |-> NIL]
  /\ ssls = [s \in 1..MaxSsl |-> NoSsl]
  /\ _ex_data_idx = -1
  /\ ex_index = [i \in 0..(MaxIdx - 1) |-> "unalloc"]
  /\ _crypto_ex_data = BlankExData
  /\ session_db = {}
  /\ call = NoCall
  /\ xfer = NoTransfer
  /\ thr = NoThreads
  /\ err_queue = "none"

(***************************************************************************)
(* The API calls as actions.                                               *)
(***************************************************************************)
engineVars == <<_init, _ctx, ctxs>>

connVars ==
  <<tcp_ssl_session, ssls, _ex_data_idx, ex_index, _crypto_ex_data, session_db>>

\* a step that belongs to no open, close or transfer
NoConnectionCall == call' = NoCall /\ xfer' = NoTransfer

\* the context _ctx points at is live: allocated and not released
CtxLive == _ctx # NIL /\ ctxs[_ctx].state = "live"

SetConfigString(key, value) ==
  \E r \in {wget_ssl_set_config_string(_config, key, value)} :
      /\ _config' = r.cfg
      /\ logErr' = r.err
      /\ last' = [op |-> "wget_ssl_set_config_string", key |-> key, ret |-> "void"]
      /\ NoConnectionCall
      /\ UNCHANGED <<build, thr, err_queue, engineVars, cb, init_config, connVars>>

SetConfigObject(key, value) ==
  \E r \in {wget_ssl_set_config_object(_config, key, value)} :
      /\ _config' = r.cfg
      /\ logErr' = r.err
      /\ last' = [op |-> "wget_ssl_set_config_object", key |-> key, ret |-> "void"]
      /\ NoConnectionCall
      /\ UNCHANGED <<build, thr, err_queue, engineVars, cb, init_config, connVars>>

SetConfigInt(key, value) ==
  \E r \in {wget_ssl_set_config_int(_config, key, value)} :
      /\ _config' = r.cfg
      /\ logErr' = r.err
      /\ last' = [op |-> "wget_ssl_set_config_int", key |-> key, ret |-> "void"]
      /\ NoConnectionCall
      /\ UNCHANGED <<build, thr, err_queue, engineVars, cb, init_config, connVars>>

\* wget_ssl_init in an environment that answers env
SslInitIn(env) ==
  \E r \in {wget_ssl_init(env)} :
      /\ _init' = r.init
      /\ _ctx' = r.ctx
      /\ ctxs' = r.ctxs
      /\ logErr' = r.err
      /\ last' = [op |-> "wget_ssl_init", key |-> "", ret |-> "void"]
      /\ init_config' = IF r.init > _init THEN _config ELSE init_config
      /\ err_queue' = IF r.err > 0 THEN OtherReason ELSE err_queue
      /\ NoConnectionCall
      /\ UNCHANGED <<build, thr, _config, cb, connVars>>

SslInit == \E env \in InitEnvs : SslInitIn(env)

\* an environment in which every step of init succeeds
GoodEnv ==
  [ctx_new_ok |-> TRUE, default_paths_ok |-> TRUE, min_version_ok |-> TRUE,
   store_ok |-> TRUE]

\* the back-end, verifying a chain of n certificates during a handshake, runs
\* the revocation callback installed on the shared context
InvokeCallback(n, ocsp_answers, hpkp_answers, ub) ==
  /\ ~cb.active
  /\ CtxLive
  /\ ctxs[_ctx].revocation_cb
  /\ \E r \in {_openssl_revocation_check_fn(_config, n, ocsp_answers, hpkp_answers, ub)} :
         /\ cb' = [active |-> TRUE, n |-> n, ocsp |-> ocsp_answers,
                   hpkp |-> hpkp_answers, ub |-> ub,
                   ret |-> r.ret, crashed |-> r.crashed, ocsp_ok |-> r.ocsp_ok,
                   hpkp_ok |-> r.hpkp_ok, pairs |-> r.pairs, looked |-> r.looked]
         /\ logErr' = r.err
  /\ last' = [op |-> "_openssl_revocation_check_fn", key |-> "", ret |-> "int"]
  /\ NoConnectionCall
  /\ UNCHANGED <<build, thr, err_queue, _config, engineVars, init_config, connVars>>

\* the callback returns to the back-end (a crashed callback never does)
ReturnFromCallback ==
  /\ cb.active
  /\ ~cb.crashed
  /\ cb' = NoCallback
  /\ NoConnectionCall
  /\ UNCHANGED <<build, thr, err_queue, _config, engineVars, last, logErr, init_config, connVars>>

SslDeinit ==
  \E r \in {wget_ssl_deinit} :
      /\ _init' = r.init
      /\ ctxs' = r.ctxs
      /\ logErr' = 0
      /\ last' = [op |-> "wget_ssl_deinit", key |-> "", ret |-> "void"]
      /\ NoConnectionCall
      /\ UNCHANGED <<build, thr, err_queue, _config, _ctx, cb, init_config, connVars>>

\* wget_ssl_open on connection t (NIL: a null pointer) up to the handshake
\* loop.  env is what the environment answers to a lazy init, fault the
\* back-end call that fails in this open, if one does.
OpenBegin(t, env, fault) ==
  /\ call.pc = "idle"
  /\ xfer.pc = "idle"
  /\ ~cb.active
  /\ t # NIL => tcp_ssl_session[t] = NIL
  /\ IF open_arguments_invalid(t)
       THEN /\ call' = [NoCall EXCEPT !.op = "wget_ssl_open", !.t = t,
                                      !.ret = "WGET_E_INVALID", !.stale = err_queue]
            /\ logErr' = 0
            /\ UNCHANGED <<engineVars, init_config, tcp_ssl_session, ssls,
                           _ex_data_idx, ex_index, _crypto_ex_data>>
       ELSE /\ FreeSslIds # {}
            /\ FreeIdx # {}
            /\ \E conn \in {Connections[t]},
                  r \in {IF _init = 0 THEN wget_ssl_init(env)
                         ELSE [init |-> _init, ctx |-> _ctx, ctxs |-> ctxs, err |-> 0]} :
               \E s \in {IF r.ctx = NIL \/ fault = "SSL_new" THEN NIL ELSE NextSslId},
                  hv \in {host_verification(_config, conn.ssl_hostname)},
                  rs \in {ssl_resume_session(_config, session_db, conn.ssl_hostname,
                                            fault, build)},
                  sni_ok \in {fault # "SSL_set_tlsext_host_name"} :
               \E stage \in {IF s = NIL THEN PrologueIndex("SSL_new")
                              ELSE PrologueIndex(fault)} :
               \E ok \in {stage > Len(PrologueCalls)} :
                   /\ _init' = r.init
                   /\ _ctx' = r.ctx
                   /\ ctxs' = r.ctxs
                   /\ init_config' = IF r.init > _init THEN _config ELSE init_config
                   /\ ssls' =
                        IF s = NIL THEN ssls
                        ELSE IF ~ok THEN bail(ssls, s)
                        ELSE [ssls EXCEPT ![s] =
                                [state |-> "live", ctx |-> r.ctx, fd |-> conn.sockfd,
                                 host |-> hv.host, hostflags |-> hv.hostflags,
                                 sni |-> IF sni_ok THEN conn.ssl_hostname ELSE NULL,
                                 session |-> rs.session]]
                   /\ _ex_data_idx' =
                        IF stage < PrologueIndex("CRYPTO_get_ex_new_index")
                          THEN _ex_data_idx
                          ELSE IF stage = PrologueIndex("CRYPTO_get_ex_new_index")
                            THEN -1 ELSE NextIdx
                   /\ ex_index' =
                        IF stage > PrologueIndex("CRYPTO_get_ex_new_index")
                          THEN [ex_index EXCEPT ![NextIdx] = "live"] ELSE ex_index
                   /\ _crypto_ex_data' =
                        IF stage > PrologueIndex("CRYPTO_set_ex_data")
                          THEN [state |-> "live", val |-> conn.ssl_hostname]
                          ELSE IF stage > PrologueIndex("CRYPTO_new_ex_data")
                            THEN [state |-> "live", val |-> NULL]
                            ELSE _crypto_ex_data
                   /\ call' =
                        IF ok
                          THEN [NoCall EXCEPT
                                  !.op = "wget_ssl_open", !.pc = "loop", !.t = t,
                                  !.ssl = s, !.resumed = rs.ret, !.fault = fault,
                                  !.stale = err_queue,
                                  !.trace = PrologueCalls
                                              \o before_handshake(_config, conn.ssl_hostname)]
                          ELSE [NoCall EXCEPT
                                  !.op = "wget_ssl_open", !.t = t, !.ssl = s,
                                  !.ret = "WGET_E_UNKNOWN", !.stale = err_queue,
                                  !.trace = SubSeq(PrologueCalls, 1, stage)
                                              \o (IF s # NIL THEN <<"SSL_free">> ELSE <<>>)]
                   /\ logErr' = r.err + (IF ok /\ ~sni_ok THEN 1 ELSE 0)
                                      + (IF ok /\ rs.ret = -1 THEN 1 ELSE 0)
  /\ err_queue' = IF logErr' > 0 \/ call'.ret = "WGET_E_UNKNOWN"
                     THEN OtherReason ELSE err_queue
  /\ last' = [op |-> "wget_ssl_open", key |-> "", ret |-> call'.ret]
  /\ xfer' = NoTransfer
  /\ UNCHANGED <<build, thr, _config, cb, tcp_ssl_session, session_db>>

\* one turn of the handshake loop of wget_ssl_open, and, when the loop ends,
\* the rest of the call.  ready is what the readiness wait reports, outcome
\* what SSL_connect comes to, hpkp_answer what the HPKP cache answers for the
\* server's certificate.  The turns that go round again are counted, and
\* their calls recorded, up to MaxAttempts; further ones only flip spin.
OpenAttempt(ready, outcome, hpkp_answer, fault) ==
  /\ call.pc = "loop"
  /\ \E t \in {call.t}, s \in {call.ssl} :
     \E conn \in {Connections[t]},
        r0 \in {SSL_connect(ctxs[ssls[s].ctx], _config, outcome, hpkp_answer)} :
     \E res \in {[r0 EXCEPT !.reason = ERR_peek_last_error(err_queue, r0.reason)]} :
     \E waited \in {conn.connect_timeout # 0},
        wants \in {res.error \in {"SSL_ERROR_WANT_READ", "SSL_ERROR_WANT_WRITE"}},
        fin \in {handshake_end(res, _config, session_db, conn.ssl_hostname, fault)} :
     \E w \in {IF waited THEN wait_2_read_and_write(ready) ELSE "READY"},
        tr \in {call.trace \o (IF waited THEN <<"wait_2_read_and_write">> ELSE <<>>)} :
         IF waited /\ w \in NegativeWait
           THEN /\ ssls' = bail(ssls, s)
                /\ call' = [call EXCEPT !.pc = "idle", !.ret = w, !.ready = ready,
                                        !.trace = tr \o <<"SSL_free">>]
                /\ logErr' = 0
                /\ UNCHANGED <<tcp_ssl_session, session_db, err_queue>>
           ELSE IF res.retval <= 0 /\ wants
             THEN /\ call' = IF call.attempts + 1 < MaxAttempts
                               THEN [call EXCEPT
                                       !.attempts = @ + 1,
                                       !.ready = IF waited THEN ready ELSE "none",
                                       !.error = res.error, !.reason = res.reason,
                                       !.pushed = r0.reason,
                                       !.cb_ran = res.cb_ran, !.looked = res.looked,
                                       !.trace = tr \o <<"SSL_connect">>]
                               ELSE [call EXCEPT
                                       !.ready = IF waited THEN ready ELSE "none",
                                       !.error = res.error, !.reason = res.reason,
                                       !.pushed = r0.reason,
                                       !.cb_ran = res.cb_ran, !.looked = res.looked,
                                       !.spin = 1 - @]
                  /\ logErr' = res.err
                  /\ err_queue' = res.reason
                  /\ UNCHANGED <<tcp_ssl_session, ssls, session_db>>
             ELSE IF fin.ret = "WGET_E_SUCCESS"
               THEN /\ tcp_ssl_session' = [tcp_ssl_session EXCEPT ![t] = s]
                    /\ session_db' = fin.db
                    /\ call' = [call EXCEPT
                                  !.pc = "idle", !.ret = fin.ret, !.attempts = @ + 1,
                                  !.ready = IF waited THEN ready ELSE "none",
                                  !.saved = fin.saved,
                                  !.cb_ran = res.cb_ran, !.looked = res.looked,
                                  !.trace = tr \o <<"SSL_connect", "ssl_save_session">>]
                    /\ logErr' = res.err
                    /\ err_queue' = res.reason
                    /\ UNCHANGED ssls
               ELSE /\ ssls' = bail(ssls, s)
                    /\ session_db' = fin.db
                    /\ call' = [call EXCEPT
                                  !.pc = "idle", !.ret = fin.ret, !.attempts = @ + 1,
                                  !.ready = IF waited THEN ready ELSE "none",
                                  !.saved = fin.saved,
                                  !.error = res.error, !.reason = res.reason,
                                  !.pushed = r0.reason,
                                  !.cb_ran = res.cb_ran, !.looked = res.looked,
                                  !.trace = tr \o <<"SSL_connect", "SSL_free">>]
                    /\ logErr' = res.err + (IF res.error = "SSL_ERROR_SSL" THEN 1 ELSE 0)
                    /\ err_queue' = res.reason
                    /\ UNCHANGED tcp_ssl_session
  /\ last' = [op |-> "wget_ssl_open", key |-> "", ret |-> call'.ret]
  /\ xfer' = NoTransfer
  /\ UNCHANGED <<build, thr, _config, engineVars, cb, init_config, _ex_data_idx,
                 ex_index, _crypto_ex_data>>

\* wget_ssl_close(&tcp->ssl_session) for connection t, or wget_ssl_close(NULL)
\* for t = NIL; SSL_shutdown returns non-zero at its shutdowns-th call
Close(t, shutdowns) ==
  /\ call.pc = "idle"
  /\ xfer.pc = "idle"
  /\ ~cb.active
  /\ \E s \in {IF t = NIL THEN NIL ELSE tcp_ssl_session[t]} :
     \E calls \in {close_calls(s, shutdowns)} :
     LET made(name) == \E i \in DOMAIN calls : calls[i] = name
     IN  /\ _crypto_ex_data' = IF made("CRYPTO_free_ex_data")
                                 THEN [state |-> "freed", val |-> NULL]
                                 ELSE _crypto_ex_data
         /\ ex_index' = IF made("CRYPTO_free_ex_index") /\ _ex_data_idx \in DOMAIN ex_index
                          THEN [ex_index EXCEPT ![_ex_data_idx] = "freed"]
                          ELSE ex_index
         /\ ssls' = IF made("SSL_free") /\ s # NIL THEN SSL_free(ssls, s) ELSE ssls
         /\ tcp_ssl_session' = IF t # NIL /\ s # NIL
                                 THEN [tcp_ssl_session EXCEPT ![t] = NIL]
                                 ELSE tcp_ssl_session
         /\ call' = [NoCall EXCEPT !.op = "wget_ssl_close", !.t = t, !.ssl = s,
                                   !.trace = calls, !.ret = "void"]
  /\ logErr' = 0
  /\ last' = [op |-> "wget_ssl_close", key |-> "", ret |-> "void"]
  /\ xfer' = NoTransfer
  /\ UNCHANGED <<build, thr, err_queue, _config, engineVars, cb, init_config, _ex_data_idx,
                 session_db>>

\* wget_ssl_read_timeout (want readable) or wget_ssl_write_timeout (want
\* writable) on the session in the slot of connection t, up to the loop of
\* ssl_transfer
TransferBegin(want, t, timeout, count) ==
  /\ call.pc = "idle"
  /\ xfer.pc = "idle"
  /\ ~cb.active
  /\ \E session \in {tcp_ssl_session[t]} :
     \E fd \in {IF session = NIL THEN -1 ELSE ssls[session].fd} :
     \E e \in {ssl_transfer_entry(want, session, fd, timeout, count)} :
         /\ xfer' = IF e.done
                      THEN [NoTransfer EXCEPT
                              !.want = want, !.session = session,
                              !.timeout = timeout, !.count = count,
                              !.ret = e.ret, !.pub = transfer_wrapper(e.ret)]
                      ELSE [NoTransfer EXCEPT
                              !.pc = "loop", !.want = want, !.session = session,
                              !.timeout = e.timeout, !.count = e.count,
                              !.ops = e.ops]
         /\ last' = [op |-> IF want = "WGET_IO_READABLE" THEN "wget_ssl_read_timeout"
                            ELSE "wget_ssl_write_timeout",
                     key |-> "", ret |-> xfer'.pub]
  /\ logErr' = 0
  /\ call' = NoCall
  /\ UNCHANGED <<build, thr, err_queue, _config, engineVars, cb, init_config, connVars>>

\* one turn of the loop of ssl_transfer and, when the turn ends the call, the
\* wrapper's return.  ready is what the readiness wait reports, result what
\* SSL_read or SSL_write comes to.  The turns that go round again are
\* counted up to MaxTransferRounds; further ones only flip spin.
TransferTurn(ready, result) ==
  /\ xfer.pc = "loop"
  /\ \E r \in {ssl_transfer_turn(xfer.timeout, xfer.ops, ready, result)} :
         /\ xfer' = IF r.done \/ xfer.calls + 1 < MaxTransferRounds
                      THEN [xfer EXCEPT
                              !.pc = IF r.done THEN "idle" ELSE "loop",
                              !.waits = @ + r.waited,
                              !.calls = @ + r.called,
                              !.ops = r.ops,
                              !.result = IF r.called = 1 THEN result ELSE "none",
                              !.ready = IF r.waited = 1 THEN ready ELSE "none",
                              !.ret = IF r.done THEN r.ret ELSE "",
                              !.pub = IF r.done THEN transfer_wrapper(r.ret) ELSE ""]
                      ELSE [xfer EXCEPT
                              !.ops = r.ops,
                              !.result = IF r.called = 1 THEN result ELSE "none",
                              !.ready = IF r.waited = 1 THEN ready ELSE "none",
                              !.spin = 1 - @]
         /\ logErr' = IF r.done /\ r.ret = "WGET_E_HANDSHAKE" THEN 1 ELSE 0
  /\ last' = [last EXCEPT !.ret = xfer'.pub]
  /\ call' = NoCall
  /\ UNCHANGED <<build, thr, err_queue, _config, engineVars, cb, init_config, connVars>>

(***************************************************************************)
(* SpecConfig: the three setters, called with every key.                   *)
(***************************************************************************)
\* the strings, integers and handles the setters are called with
StrValues == {NULL, "bogus"}

IntValues == {0, 1, 2}

ObjValues == {NIL, 1}

\* one more setter call is recorded in hist
CountedSetterCall == Len(hist) < MaxSetterCalls /\ hist' = Append(hist, "set")

ConfigSetString ==
  \E key \in AllKeys, v \in StrValues : CountedSetterCall /\ SetConfigString(key, v)

ConfigSetObject ==
  \E key \in AllKeys, v \in ObjValues : CountedSetterCall /\ SetConfigObject(key, v)

ConfigSetInt ==
  \E key \in AllKeys, v \in IntValues : CountedSetterCall /\ SetConfigInt(key, v)

NextConfig == ConfigSetString \/ ConfigSetObject \/ ConfigSetInt

SpecConfig == Init /\ [][NextConfig]_vars

(***************************************************************************)
(* SpecLife: init and deinit calls, with a priority string that the        *)
(* back-end accepts or rejects.                                            *)
(***************************************************************************)
\* the lifecycle call of this step, as hist records it
LifeCall ==
  IF last'.op = "wget_ssl_deinit" THEN "deinit"
  ELSE IF _init' > 0 THEN "init" ELSE "init_failed"

LifeInit ==
  Len(hist) < MaxLifeCalls /\ SslInit /\ hist' = Append(hist, LifeCall)

LifeDeinit ==
  Len(hist) < MaxLifeCalls /\ SslDeinit /\ hist' = Append(hist, LifeCall)

LifeSetProtocol ==
  /\ \E v \in {"AUTO", "bogus"} : SetConfigString("WGET_SSL_SECURE_PROTOCOL", v)
  /\ UNCHANGED hist

NextLife == LifeInit \/ LifeDeinit \/ LifeSetProtocol

SpecLife == Init /\ [][NextLife]_vars

(***************************************************************************)
(* Claims about the lifecycle and the setters.                             *)
(***************************************************************************)
\* the number of entries of h that equal x
RECURSIVE Count(_, _)
Count(h, x) ==
  IF h = <<>> THEN 0 ELSE (IF Head(h) = x THEN 1 ELSE 0) + Count(Tail(h), x)

\* h is n >= 1 successful init calls followed by at most n deinit calls
InitsThenDeinits(h) ==
  /\ Count(h, "init") >= 1
  /\ Count(h, "init_failed") = 0
  /\ Count(h, "deinit") <= Count(h, "init")
  /\ \A i, j \in 1..Len(h) : (h[i] = "init" /\ h[j] = "deinit") => i < j

\* C1 (as claimed): after n >= 1 successful wget_ssl_init calls followed by
\* wget_ssl_deinit calls, the shared context is live exactly as long as fewer
\* than n deinit calls were made: only the n-th deinit releases it.
C1_ReleasedOnlyByLastDeinit ==
  InitsThenDeinits(hist) =>
    (CtxLive <=> Count(hist, "deinit") < Count(hist, "init"))

\* the three setters
SetterOps ==
  {"wget_ssl_set_config_string", "wget_ssl_set_config_object", "wget_ssl_set_config_int"}

\* the setter op recognizes the key
KeyRecognized(op, key) ==
  \/ op = "wget_ssl_set_config_string" /\ key \in StringKeys
  \/ op = "wget_ssl_set_config_object" /\ key \in ObjectKeys
  \/ op = "wget_ssl_set_config_int" /\ key \in IntKeys

\* C5: a call of one of the three setters with a key that this setter does not
\* recognize leaves every configuration field (and the engine) unchanged and
\* prints exactly one error-log line.
C5_UnknownKeyChangesNothing ==
  [][(last'.op \in SetterOps /\ ~KeyRecognized(last'.op, last'.key))
       => (_config' = _config /\ logErr' = 1 /\ UNCHANGED engineVars)]_vars

\* C5 witness: the integer setter was called with a key of the object setter,
\* after an earlier call had changed the configuration.
C5_Witness ==
  /\ last.op = "wget_ssl_set_config_int"
  /\ last.key = "WGET_SSL_HPKP_CACHE"
  /\ logErr = 1
  /\ _config # DefaultConfig(build.have_gnutls_ocsp, build.with_libnghttp2)

(***************************************************************************)
(* SpecPriority: the priority string and certificate checking are set, and *)
(* the engine is initialized and de-initialized, with a back-end that can  *)
(* fail each step of init.                                                 *)
(***************************************************************************)
\* the priority strings the caller sets: a symbolic name with a protocol
\* floor, a cipher list the back-end accepts and one it rejects
PriorityStrings == {"TLSv1_3", "HIGH", "bogus"}

\* what the back-end answers to an init: everything succeeds, or one of its
\* calls fails
PriorityEnvs ==
  {GoodEnv, [GoodEnv EXCEPT !.ctx_new_ok = FALSE], [GoodEnv EXCEPT !.store_ok = FALSE],
   [GoodEnv EXCEPT !.min_version_ok = FALSE]}

PrSetProtocol ==
  /\ \E v \in PriorityStrings : SetConfigString("WGET_SSL_SECURE_PROTOCOL", v)
  /\ UNCHANGED hist

PrSetCheckCertificate ==
  /\ \E v \in {0, 1} : SetConfigInt("WGET_SSL_CHECK_CERTIFICATE", v)
  /\ UNCHANGED hist

PrInit ==
  /\ \E env \in (IF _init = 0 THEN PriorityEnvs ELSE {GoodEnv}) : SslInitIn(env)
  /\ UNCHANGED hist

PrDeinit == SslDeinit /\ UNCHANGED hist

NextPriority == PrSetProtocol \/ PrSetCheckCertificate \/ PrInit \/ PrDeinit

SpecPriority == Init /\ [][NextPriority]_vars

\* the cipher list the configured priority string yields is one the back-end
\* rejects
CipherListRejected == ~CipherListAccepted(PriorityCiphers(_config.secure_protocol))

\* C12 (as claimed): for every configuration, a wget_ssl_init on an
\* uninitialized engine whose secure_protocol yields a cipher list that the
\* back-end rejects fails and leaves the reference counter at 0.
C12_RejectedCipherListFailsInit ==
  [][(last'.op = "wget_ssl_init" /\ _init = 0 /\ CipherListRejected) => _init' = 0]_vars

(***************************************************************************)
(* SpecVerifyMode: certificate checking, the trust directory and the CRL   *)
(* file are set, and the engine is initialized and de-initialized.         *)
(***************************************************************************)
\* the trust directory is unset, empty, a directory with certificates, one
\* without, or one that cannot be opened
VmSetCaDirectory ==
  /\ \E v \in {NULL, "", "/certs", "/empty", "/missing"} :
       SetConfigString("WGET_SSL_CA_DIRECTORY", v)
  /\ UNCHANGED hist

\* the CRL file is unset, a file that loads, or one that does not
VmSetCrlFile ==
  /\ \E v \in {NULL, "/crl.pem", "/bad.pem"} : SetConfigString("WGET_SSL_CRL_FILE", v)
  /\ UNCHANGED hist

VmSetCheckCertificate ==
  /\ \E v \in {0, 1} : SetConfigInt("WGET_SSL_CHECK_CERTIFICATE", v)
  /\ UNCHANGED hist

VmInit == SslInitIn(GoodEnv) /\ UNCHANGED hist

VmDeinit == SslDeinit /\ UNCHANGED hist

NextVerifyMode ==
  VmSetCaDirectory \/ VmSetCrlFile \/ VmSetCheckCertificate \/ VmInit \/ VmDeinit

SpecVerifyMode == Init /\ [][NextVerifyMode]_vars

\* C21 (as claimed): after a successful first init the verify mode of the
\* shared context is "verify peer, fail if no peer cert" whenever
\* check_certificate was enabled at that init, for every value of
\* ca_directory, and "none" exactly when it was disabled.
C21_VerifyModeFollowsCheckCertificate ==
  (_init > 0 /\ CtxLive) =>
    ctxs[_ctx].verify = IF init_config.check_certificate # 0
                          THEN "PEER_FAIL_IF_NO_PEER_CERT" ELSE "NONE"

(***************************************************************************)
(* SpecRevocation: an initialized engine whose revocation callback the     *)
(* back-end runs on chains of up to MaxChain certificates, with OCSP and   *)
(* the HPKP cache switched on and off between the runs.                    *)
(***************************************************************************)
\* the answers drawn for the certificates of a chain; none are drawn for a
\* check that is switched off.  Every answer other than good fails a
\* certificate the same way, so revoked stands for them in the drawn chains.
RevOcspAnswers(n) ==
  IF _config.ocsp # 0 THEN SeqsOfLen({"good", "revoked"}, n) ELSE {<<>>}

RevHpkpAnswers(n) ==
  IF _config.hpkp_cache # NIL THEN SeqsOfLen(HpkpAnswers, n) ELSE {<<>>}

\* what a build may do with a NULL certificate: it matters only to the OCSP
\* walk over a chain of even length
RevUb(n) == IF _config.ocsp # 0 /\ n % 2 = 0 THEN {"crash", "fail"} ELSE {"fail"}

RevInit == ~cb.active /\ SslInitIn(GoodEnv) /\ UNCHANGED hist

RevSetOcsp ==
  /\ ~cb.active
  /\ \E v \in {0, 1} : SetConfigInt("WGET_SSL_OCSP", v)
  /\ UNCHANGED hist

RevSetHpkp ==
  /\ ~cb.active
  /\ \E v \in {NIL, 1} : SetConfigObject("WGET_SSL_HPKP_CACHE", v)
  /\ UNCHANGED hist

RevInvoke ==
  /\ ~cb.active
  /\ \E n \in 1..MaxChain :
       \E oa \in RevOcspAnswers(n), ha \in RevHpkpAnswers(n), ub \in RevUb(n) :
         InvokeCallback(n, oa, ha, ub)
  /\ UNCHANGED hist

RevReturn == ReturnFromCallback /\ UNCHANGED hist

NextRevocation == RevInit \/ RevSetOcsp \/ RevSetHpkp \/ RevInvoke \/ RevReturn

SpecRevocation == Init /\ [][NextRevocation]_vars

(***************************************************************************)
(* Claims about the revocation callback.                                   *)
(***************************************************************************)
\* the callback has run to its return statement
CallbackReturned == cb.active /\ ~cb.crashed

\* C3 (as claimed): with an HPKP cache configured, a chain in which at least
\* one certificate's lookup returns mismatch makes the callback return 0,
\* whatever the other lookups return.
C3_AnyMismatchFails ==
  (CallbackReturned /\ _config.hpkp_cache # NIL
     /\ \E k \in 1..cb.n : cb.hpkp[k] = "mismatch")
    => cb.ret = 0

\* C3 (amended): with an HPKP cache configured, the callback returns 0 when
\* every certificate's lookup returns mismatch; the HPKP decision fails only
\* when no certificate at all yields match, no pin or lookup error (each
\* lookup mismatches or the key cannot be encoded), so a mismatch on one
\* certificate is outvoted by any other certificate that does not mismatch.
C3_AllMismatchFails ==
  (CallbackReturned /\ _config.hpkp_cache # NIL) =>
    /\ (\A k \in 1..cb.n : cb.hpkp[k] = "mismatch") => cb.ret = 0
    /\ cb.hpkp_ok = 0 <=> (\A k \in 1..cb.n : cb.hpkp[k] \in {"mismatch", "nospki"})

\* C3 witness: a chain of two certificates that both mismatch was refused.
C3_Witness ==
  /\ CallbackReturned
  /\ _config.hpkp_cache # NIL
  /\ cb.n = 2
  /\ \A k \in 1..cb.n : cb.hpkp[k] = "mismatch"
  /\ cb.ret = 0

\* C22 (as claimed): for a chain of n certificates, leaf first, an OCSP pass
\* in which no check fails checks every non-root certificate k, 0 <= k < n-1,
\* exactly once, with the certificate k+1 as its issuer, in this order.
C22_EveryNonRootCheckedWithIssuer ==
  (CallbackReturned /\ _config.ocsp # 0 /\ cb.ocsp_ok = 1) =>
    cb.pairs = [k \in 1..(cb.n - 1) |-> <<k - 1, k>>]

\* C23 (as claimed): in the OCSP walk every index used to read a certificate
\* or an issuer from the chain is smaller than the chain length, for every
\* chain length >= 1.
C23_OcspIndicesInRange ==
  (cb.active /\ _config.ocsp # 0) =>
    \A j \in DOMAIN cb.pairs : cb.pairs[j][1] < cb.n /\ cb.pairs[j][2] < cb.n

\* C24 (as claimed): with an HPKP cache configured, the HPKP pass performs
\* the lookup for every certificate of the chain, whatever the outcomes of
\* the earlier lookups.
C24_EveryCertificateLookedUp ==
  (CallbackReturned /\ _config.hpkp_cache # NIL) => cb.looked = cb.n

\* the number of certificates the pinning walk gets to: up to and including
\* the first one for which the cache has no pin on file, or all of them
WalkedUpToNoPin(answers) ==
  IF \E k \in DOMAIN answers : answers[k] = "nopin"
    THEN CHOOSE k \in DOMAIN answers :
           answers[k] = "nopin" /\ \A j \in 1..(k - 1) : answers[j] # "nopin"
    ELSE Len(answers)

\* C24 (amended): with an HPKP cache configured, the HPKP pass goes through
\* the chain leaf first and stops after the first certificate for which the
\* cache reports no pin on file; a match, a lookup error, a mismatch or a key
\* that cannot be encoded does not stop it, so a chain without a "no pin"
\* answer is walked to its end.
C24_LookupsStopAtFirstNoPin ==
  (CallbackReturned /\ _config.hpkp_cache # NIL) =>
    cb.looked = WalkedUpToNoPin(cb.hpkp)

\* C24 witness: on a chain of three whose leaf mismatches and whose second
\* certificate has no pin on file, the third certificate was never reached.
C24_Witness ==
  /\ CallbackReturned
  /\ _config.hpkp_cache # NIL
  /\ cb.n = 3
  /\ cb.hpkp[1] = "mismatch"
  /\ cb.hpkp[2] = "nopin"
  /\ cb.looked = 2

\* C20: the value the revocation callback returns is the AND of the OCSP
\* decision and the HPKP decision, each 0 or 1; the OCSP decision is 1, and no
\* certificate is asked about, when OCSP is disabled; the HPKP decision is 1,
\* and no certificate is looked up, when no HPKP cache is configured; so the
\* callback returns 1 when both checks are disabled.
C20_ResultIsAndOfDecisions ==
  CallbackReturned =>
    /\ cb.ocsp_ok \in {0, 1}
    /\ cb.hpkp_ok \in {0, 1}
    /\ cb.ret = IF cb.ocsp_ok = 1 /\ cb.hpkp_ok = 1 THEN 1 ELSE 0
    /\ _config.ocsp = 0 => (cb.ocsp_ok = 1 /\ cb.pairs = <<>>)
    /\ _config.hpkp_cache = NIL => (cb.hpkp_ok = 1 /\ cb.looked = 0)
    /\ (_config.ocsp = 0 /\ _config.hpkp_cache = NIL) => cb.ret = 1

\* C20 witness: with both checks enabled, a chain that passed OCSP and failed
\* the pinning check was refused.
C20_Witness ==
  /\ CallbackReturned
  /\ _config.ocsp # 0
  /\ _config.hpkp_cache # NIL
  /\ cb.ocsp_ok = 1
  /\ cb.hpkp_ok = 0
  /\ cb.ret = 0

\* C4 (as claimed): with OCSP enabled, a chain of any length in which the
\* responder answers revoked for some non-root certificate makes the callback
\* return 0.  (A callback that crashed returned nothing; that is not held
\* against the claim here.)
C4_RevokedFails ==
  (CallbackReturned /\ _config.ocsp # 0
     /\ \E k \in 1..(cb.n - 1) : cb.ocsp[k] = "revoked")
    => cb.ret = 0

(***************************************************************************)
(* SpecOpen: one thread that initializes and de-initializes the engine,    *)
(* switches host-name checking, the HPKP cache and the session cache on    *)
(* and off, and opens and closes connections.                              *)
(***************************************************************************)
\* between two API calls: no open is inside its handshake loop
Idle == call.pc = "idle" /\ xfer.pc = "idle" /\ ~cb.active

\* what the environment answers to the lazy init of an open: everything
\* succeeds, SSL_CTX_new fails, or the context has no certificate store
OpenEnvs ==
  {GoodEnv, [GoodEnv EXCEPT !.ctx_new_ok = FALSE], [GoodEnv EXCEPT !.store_ok = FALSE]}

\* the back-end call that fails in an open, if one does
OpenFaults ==
  {"none", "SSL_new", "SSL_set_fd", "CRYPTO_get_ex_new_index",
   "CRYPTO_new_ex_data", "CRYPTO_set_ex_data", "SSL_set_tlsext_host_name",
   "d2i_SSL_SESSION", "SSL_SESSION_is_resumable", "SSL_set_session"}

\* the API calls of a behaviour are counted in hist
OpenCall == Len(hist) < MaxOpenCalls /\ hist' = Append(hist, "call")

OsInit == Idle /\ OpenCall /\ SslInitIn(GoodEnv)

\* the setters switch host-name checking off and hand the two caches over
OsSetCheckHostname == Idle /\ OpenCall /\ SetConfigInt("WGET_SSL_CHECK_HOSTNAME", 0)

OsSetHpkp == Idle /\ OpenCall /\ SetConfigObject("WGET_SSL_HPKP_CACHE", 1)

OsSetSessionCache == Idle /\ OpenCall /\ SetConfigObject("WGET_SSL_SESSION_CACHE", 1)

\* the connections this thread opens and closes: a null pointer, the one
\* with a connect timeout, the one without a socket
OsTcps == {NIL, 2, 3}

\* the faults that can show in an open: those of the resume step only when
\* the cache holds a session to resume
OpenFaultsNow ==
  IF _config.tls_session_cache # NIL /\ session_db # {}
    THEN OpenFaults
    ELSE OpenFaults \ {"d2i_SSL_SESSION", "SSL_SESSION_is_resumable", "SSL_set_session"}

\* an open draws only what it gets to use: a call refused at once meets no
\* environment, and only a handshake that succeeds gets to save a session
OsOpenBegin ==
  /\ Idle
  /\ OpenCall
  /\ \E t \in OsTcps :
       IF t = NIL \/ Connections[t].sockfd < 0
         THEN OpenBegin(t, GoodEnv, "none")
         ELSE \E env \in (IF _init = 0 THEN OpenEnvs ELSE {GoodEnv}),
                 fault \in OpenFaultsNow :
                OpenBegin(t, env, fault)

OsOpenAttempt ==
  /\ call.pc = "loop"
  /\ \E ready \in (IF Connections[call.t].connect_timeout # 0
                     THEN {"ready", "timeout", "error"} ELSE {"ready"}) :
       IF ready # "ready"
         THEN OpenAttempt(ready, "ok", "nopin", "none")
         ELSE \E outcome \in ConnectOutcomes :
                IF outcome # "ok"
                  THEN OpenAttempt(ready, outcome, "nopin", "none")
                  ELSE \E hpkp_answer \in (IF _config.hpkp_cache # NIL
                                             THEN {"match", "mismatch"}
                                             ELSE {"nopin"}),
                          fault \in (IF _config.tls_session_cache # NIL
                                       THEN {"none", "i2d_SSL_SESSION"}
                                       ELSE {"none"}) :
                         OpenAttempt(ready, outcome, hpkp_answer, fault)
  /\ call'.spin = 0
  /\ UNCHANGED hist

OsClose ==
  /\ Idle
  /\ OpenCall
  /\ \E t \in OsTcps :
       IF t = NIL \/ tcp_ssl_session[t] = NIL
         THEN Close(t, 1)
         ELSE \E n \in 1..MaxShutdown : Close(t, n)

NextOpen ==
  \/ OsInit
  \/ OsSetCheckHostname
  \/ OsSetHpkp
  \/ OsSetSessionCache
  \/ OsOpenBegin
  \/ OsOpenAttempt
  \/ OsClose

SpecOpen == Init /\ [][NextOpen]_vars

(***************************************************************************)
(* Claims about opening and closing connections.                           *)
(***************************************************************************)
\* wget_ssl_open has just returned
OpenReturned == last.op = "wget_ssl_open" /\ call.pc = "idle"

\* C2: when wget_ssl_open returns success, tcp->ssl_session is non-null (and
\* holds the live TLS state of this call); when it returns anything else, the
\* slot is still null, the TLS state this call allocated has been freed, and
\* no TLS state is live outside a slot.
C2_SlotAndStateAfterOpen ==
  OpenReturned =>
    IF call.ret = "WGET_E_SUCCESS"
      THEN /\ tcp_ssl_session[call.t] # NIL
           /\ tcp_ssl_session[call.t] = call.ssl
           /\ ssls[call.ssl].state = "live"
      ELSE /\ call.t # NIL => tcp_ssl_session[call.t] = NIL
           /\ call.ssl # NIL => ssls[call.ssl].state = "freed"
           /\ \A s \in 1..MaxSsl :
                ssls[s].state = "live" => \E t \in TcpIds : tcp_ssl_session[t] = s

\* C2 witness: an open that timed out in its handshake loop, after its TLS
\* state had been allocated, has returned with the state freed.
C2_Witness ==
  /\ OpenReturned
  /\ call.ret = "WGET_E_TIMEOUT"
  /\ call.ssl # NIL
  /\ ssls[call.ssl].state = "freed"
  /\ tcp_ssl_session[call.t] = NIL

\* C6 (as claimed): configuration is frozen once init has completed: an open
\* that follows a successful init sets up host verification as check_hostname
\* stood at that init, whatever the setters were told since.
C6_FrozenAtInit ==
  (call.op = "wget_ssl_open" /\ call.pc = "loop" /\ _init > 0) =>
    ssls[call.ssl].hostflags =
      host_verification(init_config, Connections[call.t].ssl_hostname).hostflags

\* C6 (amended): init freezes only what it copies into the shared context: no
\* setter call changes the context, the counter or the handle.  check_hostname,
\* the HPKP cache and the session cache are not frozen: every open sets up
\* host verification from the current check_hostname, the revocation callback
\* looks certificates up exactly when an HPKP cache is configured now, and a
\* session is saved only into a session cache configured now.
C6_ContextFrozenRestLive ==
  /\ [][last'.op \in SetterOps => UNCHANGED engineVars]_vars
  /\ []((call.op = "wget_ssl_open" /\ call.pc = "loop") =>
          LET hv == host_verification(_config, Connections[call.t].ssl_hostname)
          IN  /\ ssls[call.ssl].hostflags = hv.hostflags
              /\ ssls[call.ssl].host = hv.host)
  /\ []((call.op = "wget_ssl_open" /\ call.cb_ran) =>
          call.looked = IF _config.hpkp_cache # NIL THEN 1 ELSE 0)
  /\ []((call.op = "wget_ssl_open" /\ call.saved = 1) => _config.tls_session_cache # NIL)

\* C6 witness: an open after a successful init that found check_hostname on,
\* and a setter call that has switched it off since, checks no subject name.
C6_Witness ==
  /\ call.op = "wget_ssl_open"
  /\ call.pc = "loop"
  /\ _init > 0
  /\ init_config.check_hostname # 0
  /\ _config.check_hostname = 0
  /\ ssls[call.ssl].hostflags = "X509_CHECK_FLAG_NEVER_CHECK_SUBJECT"

\* C8: a wget_ssl_close on a slot holding a session leaves the slot null; a
\* wget_ssl_close on a null slot, or on a null pointer, makes no back-end call
\* (no shutdown, no release of extension data or index, no free) and changes
\* nothing.
C8_CloseOnNullSlotDoesNothing ==
  [][last'.op = "wget_ssl_close" =>
       /\ call'.t # NIL => tcp_ssl_session'[call'.t] = NIL
       /\ (call'.t = NIL \/ tcp_ssl_session[call'.t] = NIL) =>
            /\ call'.trace = <<>>
            /\ UNCHANGED <<connVars, engineVars, _config>>]_vars

\* C8 witness: connection 2 has been opened and closed (its extension index
\* is released), and a second close on its slot has made no back-end call.
C8_Witness ==
  /\ last.op = "wget_ssl_close"
  /\ call.t = 2
  /\ call.trace = <<>>
  /\ tcp_ssl_session[2] = NIL
  /\ \E i \in DOMAIN ex_index : ex_index[i] = "freed"
  /\ \E s \in 1..MaxSsl : ssls[s].state = "freed"

\* the position of the first SSL_connect in a trace; past the end if none
FirstConnect(tr) ==
  IF \E i \in DOMAIN tr : tr[i] = "SSL_connect"
    THEN CHOOSE i \in DOMAIN tr :
           tr[i] = "SSL_connect" /\ \A j \in 1..(i - 1) : tr[j] # "SSL_connect"
    ELSE Len(tr) + 1

\* the calls that set up host verification, SNI and resumption
SetupCalls ==
  {"SSL_set1_host", "SSL_set_hostflags", "SSL_set_tlsext_host_name",
   "ssl_resume_session"}

\* C9: within one wget_ssl_open, the host flags and the SNI host name are set
\* and resumption is attempted before the first SSL_connect, and none of the
\* set-up calls is made after an SSL_connect.
C9_SetupBeforeFirstConnect ==
  call.op = "wget_ssl_open" =>
    LET tr == call.trace
        fc == FirstConnect(tr)
    IN  /\ \A i \in DOMAIN tr : tr[i] \in SetupCalls => i < fc
        /\ fc <= Len(tr) =>
             \A c \in {"SSL_set_hostflags", "SSL_set_tlsext_host_name",
                       "ssl_resume_session"} :
               \E i \in 1..(fc - 1) : tr[i] = c

\* C9 witness: an open whose first SSL_connect wanted more I/O and whose
\* second one succeeded has returned.
C9_Witness ==
  /\ OpenReturned
  /\ call.ret = "WGET_E_SUCCESS"
  /\ call.attempts = 2
  /\ FirstConnect(call.trace) < Len(call.trace) - 1

\* C10: the session cache changes only in the step of wget_ssl_open in which
\* SSL_connect reports success and the call returns success, and then it
\* gains the entry of the connection's host, saved after that SSL_connect; an
\* open that returns an error leaves the cache as it was.
C10_SaveOnlyAfterSuccess ==
  [][/\ session_db' # session_db =>
          /\ call.op = "wget_ssl_open"
          /\ call.pc = "loop"
          /\ last'.op = "wget_ssl_open"
          /\ call'.pc = "idle"
          /\ call'.ret = "WGET_E_SUCCESS"
          /\ session_db' = session_db \cup {Connections[call'.t].ssl_hostname}
          /\ LET tr == call'.trace
             IN  /\ tr[Len(tr)] = "ssl_save_session"
                 /\ tr[Len(tr) - 1] = "SSL_connect"
     /\ (last'.op = "wget_ssl_open" /\ call'.ret # "WGET_E_SUCCESS") =>
          session_db' = session_db]_vars

\* C10 witness: an open has returned success and the cache holds the session
\* it saved for its host.
C10_Witness ==
  /\ OpenReturned
  /\ call.ret = "WGET_E_SUCCESS"
  /\ call.saved = 1
  /\ Connections[call.t].ssl_hostname \in session_db

\* the handshake loop of an open has ended in failure: its last SSL_connect
\* returned no success and SSL_get_error classified it as neither want-read
\* nor want-write
LoopEndedInFailure ==
  OpenReturned /\ call.error \in {"SSL_ERROR_SSL", "SSL_ERROR_SYSCALL"}

\* C19: a wget_ssl_open called with a null connection or with a connection
\* whose descriptor is negative returns INVALID at once and changes nothing:
\* the engine is not initialized, no TLS state and no extension index is
\* allocated, no back-end call is made, and the session cache and the
\* connection's slot are as before.
C19_InvalidArgumentsNoEffect ==
  [][(/\ last'.op = "wget_ssl_open"
      /\ call.pc = "idle"
      /\ (call'.t = NIL \/ Connections[call'.t].sockfd < 0))
       => /\ call'.ret = "WGET_E_INVALID"
          /\ call'.pc = "idle"
          /\ call'.trace = <<>>
          /\ call'.ssl = NIL
          /\ UNCHANGED <<engineVars, connVars, _config, init_config>>]_vars

\* C19 witness: on an engine that was never initialized, an open on the
\* connection without a socket has returned INVALID and the engine is still
\* uninitialized, with no TLS state handed out.
C19_Witness ==
  /\ OpenReturned
  /\ call.t = 3
  /\ call.ret = "WGET_E_INVALID"
  /\ _init = 0
  /\ _ctx = NIL
  /\ \A s \in 1..MaxSsl : ssls[s].state = "unalloc"
  /\ \A i \in DOMAIN ex_index : ex_index[i] = "unalloc"

\* C13: when the handshake loop ends in failure, wget_ssl_open returns
\* CERTIFICATE if the reason of the last entry on the back-end's error queue
\* is "certificate verify failed" and HANDSHAKE otherwise, and in both cases
\* the TLS state is freed and the connection's slot stays null.
C13_FailedHandshakeCode ==
  LoopEndedInFailure =>
    /\ call.ret = IF call.reason = "SSL_R_CERTIFICATE_VERIFY_FAILED"
                    THEN "WGET_E_CERTIFICATE" ELSE "WGET_E_HANDSHAKE"
    /\ ssls[call.ssl].state = "freed"
    /\ call.trace[Len(call.trace)] = "SSL_free"
    /\ tcp_ssl_session[call.t] = NIL

\* C13 witness: an open whose SSL_connect failed in the TLS layer, leaving a
\* certificate verification failure as the last entry on the error queue, has
\* returned CERTIFICATE with its TLS state freed.
C13_Witness ==
  /\ LoopEndedInFailure
  /\ call.error = "SSL_ERROR_SSL"
  /\ call.reason = "SSL_R_CERTIFICATE_VERIFY_FAILED"
  /\ call.ret = "WGET_E_CERTIFICATE"
  /\ ssls[call.ssl].state = "freed"

\* C14: in the handshake loop of a connection with a non-zero
\* connect_timeout, a readiness wait that reports 0 makes wget_ssl_open return
\* TIMEOUT and a negative readiness result is returned as it is; in both
\* cases SSL_connect is not invoked again, the TLS state is freed and the
\* call returns.
C14_WaitFailureEndsOpen ==
  [][(/\ call.pc = "loop"
      /\ last'.op = "wget_ssl_open"
      /\ Connections[call.t].connect_timeout # 0
      /\ call'.ready \in {"timeout", "error"})
       => /\ call'.ret = IF call'.ready = "timeout" THEN "WGET_E_TIMEOUT"
                         ELSE "READY_ERROR"
          /\ call'.pc = "idle"
          /\ call'.attempts = call.attempts
          /\ call'.trace = call.trace \o <<"wait_2_read_and_write", "SSL_free">>
          /\ ssls'[call.ssl].state = "freed"
          /\ tcp_ssl_session'[call.t] = NIL]_vars

\* C14 witness: an open whose first SSL_connect wanted more I/O and whose
\* second readiness wait reported 0 has returned TIMEOUT after that one
\* SSL_connect, with its TLS state freed.
C14_Witness ==
  /\ OpenReturned
  /\ call.ready = "timeout"
  /\ call.ret = "WGET_E_TIMEOUT"
  /\ call.attempts = 1
  /\ ssls[call.ssl].state = "freed"

(***************************************************************************)
(* SpecHandshake: one thread that opens the connection with a connect      *)
(* timeout to a peer that never answers: the socket never becomes          *)
(* readable and every SSL_connect reports want-read.  The thread keeps     *)
(* running, so a handshake loop that can take a turn takes it.             *)
(***************************************************************************)
\* the readiness primitive wait(fd, timeout_ms, directions): negative on
\* error, 0 when the timeout passes with none of the directions ready,
\* positive as soon as one of them is
wget_ready_2_transfer(readable, writable, ops, error) ==
  IF error THEN "error"
  ELSE IF ("WGET_IO_READABLE" \in ops /\ readable) \/ ("WGET_IO_WRITABLE" \in ops /\ writable)
    THEN "ready"
    ELSE "timeout"

\* the directions wait_2_read_and_write waits for
ConnectOps == {"WGET_IO_READABLE", "WGET_IO_WRITABLE"}

HsSetCheckHostname ==
  Idle /\ _config.check_hostname # 0 /\ SetConfigInt("WGET_SSL_CHECK_HOSTNAME", 0)
       /\ UNCHANGED hist

HsSetSessionCache ==
  Idle /\ _config.tls_session_cache = NIL /\ SetConfigObject("WGET_SSL_SESSION_CACHE", 1)
       /\ UNCHANGED hist

HsSetHpkp ==
  Idle /\ _config.hpkp_cache = NIL /\ SetConfigObject("WGET_SSL_HPKP_CACHE", 1)
       /\ UNCHANGED hist

HsOpenBegin == Idle /\ OpenBegin(2, GoodEnv, "none") /\ UNCHANGED hist

\* a turn of the loop: the socket is not readable, and writable or not
HsOpenTurn ==
  /\ call.pc = "loop"
  /\ \E writable \in BOOLEAN :
       OpenAttempt(wget_ready_2_transfer(FALSE, writable, ConnectOps, FALSE),
                   "SSL_ERROR_WANT_READ", "nopin", "none")
  /\ UNCHANGED hist

NextHandshake ==
  HsSetCheckHostname \/ HsSetSessionCache \/ HsSetHpkp \/ HsOpenBegin \/ HsOpenTurn

SpecHandshake == Init /\ [][NextHandshake]_vars /\ WF_vars(HsOpenTurn)

\* C15 (as claimed): with a non-zero connect_timeout, an open whose socket
\* never becomes readable after the handshake has begun, every SSL_connect
\* reporting want-read, eventually returns TIMEOUT.
C15_EventuallyTimeout ==
  (call.op = "wget_ssl_open" /\ call.pc = "loop"
     /\ Connections[call.t].connect_timeout # 0)
    ~> (OpenReturned /\ call.ret = "WGET_E_TIMEOUT")

(***************************************************************************)
(* SpecSession: one thread that hands the session cache over and opens and *)
(* closes the two connections that have a socket, again and again; the     *)
(* back-end can fail to serialize a session and to take a cached one back. *)
(***************************************************************************)
\* the back-end calls of the resume step that can fail
ResumeFaults == {"d2i_SSL_SESSION", "SSL_SESSION_is_resumable", "SSL_set_session"}

\* those of them the build makes: SSL_SESSION_is_resumable exists from
\* OpenSSL 1.1.1 on
ResumeFaultsOf(bld) ==
  IF bld.openssl_1_1_1 THEN ResumeFaults ELSE ResumeFaults \ {"SSL_SESSION_is_resumable"}

SsSetSessionCache ==
  /\ Idle
  /\ _config.tls_session_cache = NIL
  /\ SetConfigObject("WGET_SSL_SESSION_CACHE", 1)
  /\ UNCHANGED hist

SsOpenBegin ==
  /\ Idle
  /\ \E t \in {1, 2} :
     \E fault \in (IF _config.tls_session_cache # NIL
                       /\ Connections[t].ssl_hostname \in session_db
                     THEN {"none"} \cup ResumeFaultsOf(build) ELSE {"none"}) :
       OpenBegin(t, GoodEnv, fault)
  /\ UNCHANGED hist

SsOpenAttempt ==
  /\ call.pc = "loop"
  /\ \E outcome \in {"ok", "SSL_ERROR_SYSCALL"} :
     \E fault \in (IF outcome = "ok" /\ _config.tls_session_cache # NIL
                     THEN {"none", "i2d_SSL_SESSION"} ELSE {"none"}) :
       OpenAttempt("ready", outcome, "nopin", fault)
  /\ UNCHANGED hist

SsClose == Idle /\ (\E t \in {1, 2} : tcp_ssl_session[t] # NIL /\ Close(t, 1)) /\ UNCHANGED hist

NextSession == SsSetSessionCache \/ SsOpenBegin \/ SsOpenAttempt \/ SsClose

SpecSession == Init /\ [][NextSession]_vars

(***************************************************************************)
(* Claims about the session cache.                                         *)
(***************************************************************************)
\* wget_ssl_open has run its resume step and stands before its handshake loop
ResumeStepDone == call.op = "wget_ssl_open" /\ call.pc = "loop" /\ call.attempts = 0

\* C11: with a session cache configured, the resume step of an open to a host
\* whose session an earlier successful open has saved finds the entry,
\* installs it on the fresh TLS state and returns 1 (when the back-end fails
\* to parse or install the entry, or reports it not resumable, it returns -1
\* and installs nothing); when the cache holds nothing for the host, or no
\* cache is configured, it returns 0 and installs nothing.
C11_SaveThenResume ==
  ResumeStepDone =>
    LET h == Connections[call.t].ssl_hostname
        found == _config.tls_session_cache # NIL /\ h \in session_db
        refused == call.fault \in ResumeFaultsOf(build)
    IN  /\ (found /\ ~refused) => (call.resumed = 1 /\ ssls[call.ssl].session = h)
        /\ (found /\ refused) => (call.resumed = -1 /\ ssls[call.ssl].session = NULL)
        /\ ~found => (call.resumed = 0 /\ ssls[call.ssl].session = NULL)

\* C11 witness: the second open to pinned.example, after the first one saved
\* its session and was closed, has installed the cached session.
C11_Witness ==
  /\ ResumeStepDone
  /\ call.t = 2
  /\ call.resumed = 1
  /\ ssls[call.ssl].session = "pinned.example"
  /\ "pinned.example" \in session_db
  /\ \E i \in DOMAIN ex_index : ex_index[i] = "freed"

(***************************************************************************)
(* SpecTransfer: one thread that opens connection 1, reads from it and     *)
(* writes to it with every kind of timeout and count, and closes it.       *)
(***************************************************************************)
\* the timeouts and the counts the caller passes
TransferTimeouts == {-2, -1, 0, 100}

TransferCounts == {0, 5, INT_MAX}

XfOpenBegin == Idle /\ OpenBegin(1, GoodEnv, "none") /\ UNCHANGED hist

XfOpenAttempt ==
  /\ call.pc = "loop"
  /\ \E outcome \in {"ok", "SSL_ERROR_WANT_READ", "SSL_ERROR_SYSCALL"} :
       OpenAttempt("ready", outcome, "nopin", "none")
  /\ call'.spin = 0
  /\ UNCHANGED hist

XfTransferBegin ==
  /\ \E want \in {"WGET_IO_READABLE", "WGET_IO_WRITABLE"},
        timeout \in TransferTimeouts, count \in TransferCounts :
       TransferBegin(want, 1, timeout, count)
  /\ UNCHANGED hist

XfTransferTurn ==
  /\ xfer.pc = "loop"
  /\ \E ready \in (IF xfer.timeout # 0 THEN {"ready", "timeout", "error"}
                   ELSE {"ready"}) :
       IF ready # "ready"
         THEN TransferTurn(ready, "0")
         ELSE \E result \in TransferResults : TransferTurn(ready, result)
  /\ xfer'.spin = 0
  /\ UNCHANGED hist

XfClose == Idle /\ Close(1, 1) /\ UNCHANGED hist

NextTransfer ==
  XfOpenBegin \/ XfOpenAttempt \/ XfTransferBegin \/ XfTransferTurn \/ XfClose

SpecTransfer == Init /\ [][NextTransfer]_vars

(***************************************************************************)
(* Claims about framed I/O.                                                *)
(***************************************************************************)
\* a transfer that got into the loop of ssl_transfer has returned
TransferReturned ==
  /\ last.op \in {"wget_ssl_read_timeout", "wget_ssl_write_timeout"}
  /\ xfer.pc = "idle"
  /\ xfer.session # NIL
  /\ xfer.count # 0

\* the socket was not ready: SSL_read or SSL_write found it would block
NotReady == xfer.result \in {"SSL_ERROR_WANT_READ", "SSL_ERROR_WANT_WRITE"}

\* C7 (as claimed): a transfer with timeout 0 on a socket that is not ready
\* returns 0 without ever invoking SSL_read or SSL_write.
C7_NoReadWriteAtTimeoutZero ==
  (TransferReturned /\ xfer.timeout = 0 /\ NotReady) =>
    (xfer.ret = "0" /\ xfer.calls = 0)

\* C7 (amended): a transfer with timeout 0 never waits for readiness and
\* invokes SSL_read or SSL_write exactly once; when that one call reports
\* want-read or want-write (the socket is not ready), the transfer returns 0.
C7_OneReadWriteAtTimeoutZero ==
  (TransferReturned /\ xfer.timeout = 0) =>
    /\ xfer.waits = 0
    /\ xfer.calls = 1
    /\ NotReady => (xfer.ret = "0" /\ xfer.pub = "0")

\* C7 witness: a read with timeout 0 whose single SSL_read reported
\* want-read has returned 0.
C7_Witness ==
  /\ TransferReturned
  /\ last.op = "wget_ssl_read_timeout"
  /\ xfer.timeout = 0
  /\ xfer.result = "SSL_ERROR_WANT_READ"
  /\ xfer.calls = 1
  /\ xfer.waits = 0
  /\ xfer.ret = "0"

\* C16: in ssl_transfer with a non-zero timeout, a turn whose readiness wait
\* reports 0 ends the transfer with the TIMEOUT error, and one whose wait
\* reports a negative result ends it with that result; neither turn invokes
\* SSL_read or SSL_write, and the public wrapper hands the value on.
C16_WaitFailureEndsTransfer ==
  [][(/\ xfer.pc = "loop"
      /\ xfer.timeout # 0
      /\ xfer'.ready \in {"timeout", "error"})
       => /\ xfer'.pc = "idle"
          /\ xfer'.ret = IF xfer'.ready = "timeout" THEN "WGET_E_TIMEOUT"
                         ELSE "READY_ERROR"
          /\ xfer'.pub = xfer'.ret
          /\ xfer'.calls = xfer.calls
          /\ xfer'.waits = xfer.waits + 1]_vars

\* C16 witness: a read with a timeout of 100 whose first SSL_read wanted more
\* I/O and whose second readiness wait reported 0 has returned TIMEOUT after
\* that one SSL_read.
C16_Witness ==
  /\ TransferReturned
  /\ last.op = "wget_ssl_read_timeout"
  /\ xfer.timeout = 100
  /\ xfer.ready = "timeout"
  /\ xfer.waits = 2
  /\ xfer.calls = 1
  /\ xfer.ret = "WGET_E_TIMEOUT"

\* C17 (as documented): wget_ssl_read_timeout and wget_ssl_write_timeout
\* return zero, not a negative value, when the timeout elapses without any
\* data having become available or sent.
C17_ZeroWhenTimeoutElapses ==
  (TransferReturned /\ xfer.ready = "timeout" /\ xfer.calls = 0) => xfer.pub = "0"

\* a read or a write has returned, from the loop or before it
WrapperReturned ==
  /\ last.op \in {"wget_ssl_read_timeout", "wget_ssl_write_timeout"}
  /\ xfer.pc = "idle"

\* C18: the public read and write wrappers never return HANDSHAKE: when
\* ssl_transfer classifies a negative result of SSL_read or SSL_write as
\* neither want-read nor want-write, the wrapper returns UNKNOWN (and prints
\* one error-log line); every other value ssl_transfer returns is returned
\* unchanged.
C18_WrapperRemapsHandshake ==
  WrapperReturned =>
    /\ xfer.pub # "WGET_E_HANDSHAKE"
    /\ xfer.result \in OtherErrors => (xfer.pub = "WGET_E_UNKNOWN" /\ logErr = 1)
    /\ xfer.result \notin OtherErrors => xfer.pub = xfer.ret
    /\ xfer.result \in OtherErrors <=> xfer.ret = "WGET_E_HANDSHAKE"

\* C18 witness: a write whose SSL_write failed in a system call has returned
\* UNKNOWN.
C18_Witness ==
  /\ WrapperReturned
  /\ last.op = "wget_ssl_write_timeout"
  /\ xfer.result = "SSL_ERROR_SYSCALL"
  /\ xfer.ret = "WGET_E_HANDSHAKE"
  /\ xfer.pub = "WGET_E_UNKNOWN"

(***************************************************************************)
(* SpecTransferLive: one thread that opens connection 1 and reads from it  *)
(* and writes to it with a timeout of 0 or 100, on a socket that is        *)
(* readable or not and writable or not at each wait, and a back-end that   *)
(* answers as it likes.  The thread keeps running, so a transfer loop that *)
(* can take a turn takes it.                                               *)
(***************************************************************************)
TlOpenBegin == Idle /\ OpenBegin(1, GoodEnv, "none") /\ UNCHANGED hist

TlOpenAttempt ==
  /\ call.pc = "loop"
  /\ OpenAttempt("ready", "ok", "nopin", "none")
  /\ UNCHANGED hist

TlTransferBegin ==
  /\ tcp_ssl_session[1] # NIL
  /\ \E want \in {"WGET_IO_READABLE", "WGET_IO_WRITABLE"}, timeout \in {0, 100} :
       TransferBegin(want, 1, timeout, 5)
  /\ UNCHANGED hist

TlTransferTurn ==
  /\ xfer.pc = "loop"
  /\ \E readable \in BOOLEAN, writable \in BOOLEAN, result \in TransferResults :
       TransferTurn(wget_ready_2_transfer(readable, writable, xfer.ops, FALSE), result)
  /\ UNCHANGED hist

NextTransferLive == TlOpenBegin \/ TlOpenAttempt \/ TlTransferBegin \/ TlTransferTurn

SpecTransferLive ==
  Init /\ [][NextTransferLive]_vars /\ WF_vars(TlTransferTurn)

\* C25 (as claimed): for every caller-supplied timeout >= 0, a call of the
\* transfer function that has entered its loop eventually returns, whatever
\* the back-end and the readiness wait report.
C25_TransferEventuallyReturns ==
  (xfer.pc = "loop" /\ xfer.timeout >= 0) ~> (xfer.pc = "idle")

(***************************************************************************)
(* SpecClose: one thread that opens and closes connections 1 and 2, in any *)
(* order and both at once; an open can fail after its extension index or   *)
(* its container was allocated, or in the handshake; SSL_shutdown answers  *)
(* 0, a positive or a negative value at each call of a close.              *)
(***************************************************************************)
\* what SSL_shutdown answers to the calls of one close, up to the first
\* answer that is sure to end the loop
ShutdownScripts ==
  {r \in UNION {[1..n -> {-1, 0, 1}] : n \in 1..MaxShutdown} : r[Len(r)] # 0}

ClOpenBegin ==
  /\ Idle
  /\ \E t \in {1, 2}, fault \in {"none", "CRYPTO_new_ex_data", "CRYPTO_set_ex_data"} :
       OpenBegin(t, GoodEnv, fault)
  /\ UNCHANGED hist

ClOpenAttempt ==
  /\ call.pc = "loop"
  /\ \E outcome \in {"ok", "SSL_ERROR_SSL"} : OpenAttempt("ready", outcome, "nopin", "none")
  /\ UNCHANGED hist

ClClose ==
  /\ Idle
  /\ \E t \in {1, 2}, results \in ShutdownScripts :
       /\ tcp_ssl_session[t] # NIL
       /\ Close(t, SSL_shutdown_loop(results))
       /\ hist' = results

NextClose == ClOpenBegin \/ ClOpenAttempt \/ ClClose

SpecClose == Init /\ [][NextClose]_vars

\* the position of the first non-zero answer of a script
FirstNonZero(results) ==
  CHOOSE k \in DOMAIN results :
    results[k] # 0 /\ \A j \in 1..(k - 1) : results[j] = 0

\* C26: a wget_ssl_close on a slot holding a session calls SSL_shutdown again
\* only while it answers 0 and stops at the first non-zero answer, positive or
\* negative; it then releases the extension data and index, frees the TLS
\* state and nulls the slot; it makes no other call (the socket stays open)
\* and leaves the reference counter, the shared context and the
\* configuration as they were.
C26_CloseFrame ==
  [][(last'.op = "wget_ssl_close" /\ call'.t # NIL /\ tcp_ssl_session[call'.t] # NIL) =>
       /\ call'.trace =
            [i \in 1..FirstNonZero(hist') |-> "SSL_shutdown"]
              \o <<"CRYPTO_free_ex_data", "CRYPTO_free_ex_index", "SSL_free">>
       /\ ssls'[tcp_ssl_session[call'.t]].state = "freed"
       /\ tcp_ssl_session'[call'.t] = NIL
       /\ \A u \in TcpIds \ {call'.t} : tcp_ssl_session'[u] = tcp_ssl_session[u]
       /\ UNCHANGED <<_init, _ctx, ctxs, _config>>]_vars

\* C26 witness: a close of connection 2 whose SSL_shutdown answered 0 and then
\* a negative value has made two shutdown calls and freed the TLS state, and
\* the engine is still initialized.
C26_Witness ==
  /\ last.op = "wget_ssl_close"
  /\ call.t = 2
  /\ hist = <<0, -1>>
  /\ Len(call.trace) = 5
  /\ tcp_ssl_session[2] = NIL
  /\ ssls[call.ssl].state = "freed"
  /\ _init = 1 /\ CtxLive

\* the connections that own an extension index and a container: those
\* holding a session, and the one whose open is in its handshake loop
ExDataOwners ==
  Cardinality({t \in TcpIds : tcp_ssl_session[t] # NIL})
    + (IF call.pc = "loop" THEN 1 ELSE 0)

\* C27 (as claimed): on one thread, whatever opens and closes are made, every
\* extension index and container allocated by an open is released exactly
\* once: in every state the indices still allocated are as many as the
\* connections that own one, and the container is allocated exactly while
\* some connection owns one.
C27_ExDataReleasedExactlyOnce ==
  /\ Cardinality({i \in DOMAIN ex_index : ex_index[i] = "live"}) = ExDataOwners
  /\ _crypto_ex_data.state = "live" <=> ExDataOwners > 0

\* C30: the reference counter _init is 0 or 1 in every reachable state: no
\* number of init calls takes it above 1, and no number of deinit calls,
\* balanced or not, takes it below 0.
C30_CounterIsZeroOrOne == _init \in {0, 1}

\* C30 witness: two successful inits, then two deinits, the second of which
\* found the counter at 0 already.
C30_Witness ==
  /\ hist = <<"init", "init", "deinit", "deinit">>
  /\ _init = 0
  /\ ~CtxLive

(***************************************************************************)
(* SpecThreads: two worker threads that call wget_ssl_init and              *)
(* wget_ssl_deinit and open and close one connection each, interleaved     *)
(* statement by statement.  Initialization meets an environment in which   *)
(* it succeeds.                                                            *)
(***************************************************************************)
\* what a step of a thread leaves alone besides the engine and the indices
threadFrame ==
  <<build, _config, last, logErr, hist, cb, init_config, tcp_ssl_session, ssls,
    _ex_data_idx, _crypto_ex_data, session_db, call, xfer, err_queue>>

\* the positions of a thread inside wget_ssl_init and wget_ssl_deinit
LifecyclePcs ==
  {"init_test", "init_create", "init_count", "deinit_free", "deinit_count", "unlock"}

\* wget_ssl_init or wget_ssl_deinit, first statement: take the mutex
ThLock(th) ==
  /\ thr.pc[th] = "idle"
  /\ thr.calls[th] < MaxThreadCalls
  /\ wget_thread_mutex_lock(thr.mutex)
  /\ \E op \in {"init_test", "deinit_free"} :
       thr' = [thr EXCEPT !.mutex = th, !.pc[th] = op, !.calls[th] = @ + 1]
  /\ UNCHANGED <<threadFrame, engineVars, ex_index>>

\* wget_ssl_init: if (!_init)
ThInitTest(th) ==
  /\ thr.pc[th] = "init_test"
  /\ thr' = [thr EXCEPT !.pc[th] = IF _init = 0 THEN "init_create" ELSE "unlock"]
  /\ UNCHANGED <<threadFrame, engineVars, ex_index>>

\* wget_ssl_init: _ctx = SSL_CTX_new(...) and openssl_init(_ctx)
ThInitCreate(th) ==
  /\ thr.pc[th] = "init_create"
  /\ FreeCtxIds # {}
  /\ \E c \in {NextCtxId}, r \in {openssl_init(NewCtx, _config, build, GoodEnv)} :
       /\ _ctx' = c
       /\ ctxs' = [ctxs EXCEPT ![c] = r.ctx]
       /\ thr' = [thr EXCEPT !.pc[th] = IF r.ret = "WGET_E_SUCCESS"
                                          THEN "init_count" ELSE "unlock"]
  /\ UNCHANGED <<threadFrame, _init, ex_index>>

\* wget_ssl_init: _init++
ThInitCount(th) ==
  /\ thr.pc[th] = "init_count"
  /\ _init' = _init + 1
  /\ thr' = [thr EXCEPT !.pc[th] = "unlock"]
  /\ UNCHANGED <<threadFrame, _ctx, ctxs, ex_index>>

\* wget_ssl_deinit: if (_init == 1) openssl_deinit(_ctx)
ThDeinitFree(th) ==
  /\ thr.pc[th] = "deinit_free"
  /\ ctxs' = IF _init = 1 THEN [ctxs EXCEPT ![_ctx] = FreedCtx] ELSE ctxs
  /\ thr' = [thr EXCEPT !.pc[th] = "deinit_count"]
  /\ UNCHANGED <<threadFrame, _init, _ctx, ex_index>>

\* wget_ssl_deinit: if (_init > 0) _init--
ThDeinitCount(th) ==
  /\ thr.pc[th] = "deinit_count"
  /\ _init' = IF _init > 0 THEN _init - 1 ELSE _init
  /\ thr' = [thr EXCEPT !.pc[th] = "unlock"]
  /\ UNCHANGED <<threadFrame, _ctx, ctxs, ex_index>>

\* wget_ssl_init or wget_ssl_deinit, last statement: give the mutex back
ThUnlock(th) ==
  /\ thr.pc[th] = "unlock"
  /\ thr' = [thr EXCEPT !.mutex = NIL, !.pc[th] = "idle"]
  /\ UNCHANGED <<threadFrame, engineVars, ex_index>>

\* wget_ssl_open on an initialized engine, up to
\* _ex_data_idx = CRYPTO_get_ex_new_index(...)
ThOpenIndex(th) ==
  /\ thr.pc[th] = "idle"
  /\ _init > 0
  /\ FreeIdx # {}
  /\ \E cell \in {thread_local(th)} :
       thr' = [thr EXCEPT !.idx[cell] = NextIdx, !.read[th] = "none",
                          !.pc[th] = "new_ex_data"]
  /\ ex_index' = [ex_index EXCEPT ![NextIdx] = "live"]
  /\ UNCHANGED <<threadFrame, engineVars>>

\* wget_ssl_open: CRYPTO_new_ex_data(CRYPTO_EX_INDEX_SSL, NULL, &_crypto_ex_data)
ThOpenNewExData(th) ==
  /\ thr.pc[th] = "new_ex_data"
  /\ \E cell \in {thread_local(th)} :
       thr' = [thr EXCEPT !.data[cell] = BlankSlots, !.pc[th] = "set_ex_data"]
  /\ UNCHANGED <<threadFrame, engineVars, ex_index>>

\* wget_ssl_open: CRYPTO_set_ex_data(&_crypto_ex_data, _ex_data_idx, hostname)
ThOpenSetExData(th) ==
  /\ thr.pc[th] = "set_ex_data"
  /\ \E cell \in {thread_local(th)} :
       thr' = [thr EXCEPT !.data[cell][thr.idx[cell]] = Connections[th].ssl_hostname,
                          !.pc[th] = "handshake"]
  /\ UNCHANGED <<threadFrame, engineVars, ex_index>>

\* wget_ssl_open: the handshake, during which the revocation callback runs
\* verify_hpkp if an HPKP cache is configured; verify_hpkp reads
\* CRYPTO_get_ex_data(&_crypto_ex_data, _ex_data_idx)
ThOpenHandshake(th) ==
  /\ thr.pc[th] = "handshake"
  /\ \E cell \in {thread_local(th)} :
       thr' = [thr EXCEPT !.read[th] = IF _config.hpkp_cache # NIL
                                         THEN thr.data[cell][thr.idx[cell]]
                                         ELSE "none",
                          !.pc[th] = "open"]
  /\ UNCHANGED <<threadFrame, engineVars, ex_index>>

\* wget_ssl_close: CRYPTO_free_ex_data and CRYPTO_free_ex_index
ThClose(th) ==
  /\ thr.pc[th] = "open"
  /\ \E cell \in {thread_local(th)} :
       /\ thr' = [thr EXCEPT !.data[cell] = BlankSlots, !.pc[th] = "idle"]
       /\ ex_index' = [ex_index EXCEPT ![thr.idx[cell]] = "freed"]
  /\ UNCHANGED <<threadFrame, engineVars>>

\* the HPKP cache is configured before the threads start
ThSetHpkp ==
  /\ thr = NoThreads
  /\ _config.hpkp_cache = NIL
  /\ SetConfigObject("WGET_SSL_HPKP_CACHE", 1)
  /\ UNCHANGED hist

NextThreads ==
  \/ ThSetHpkp
  \/ \E th \in Threads :
       \/ ThLock(th)
       \/ ThInitTest(th)
       \/ ThInitCreate(th)
       \/ ThInitCount(th)
       \/ ThDeinitFree(th)
       \/ ThDeinitCount(th)
       \/ ThUnlock(th)
       \/ ThOpenIndex(th)
       \/ ThOpenNewExData(th)
       \/ ThOpenSetExData(th)
       \/ ThOpenHandshake(th)
       \/ ThClose(th)

SpecThreads == Init /\ [][NextThreads]_vars

\* C28: when several threads run handshakes in parallel, each for a
\* different host, the host name the revocation callback has read from the
\* extension slot during a thread's handshake is the host name of the
\* connection that thread is opening, under every interleaving.
C28_CallbackReadsOwnHost ==
  \A th \in Threads :
    (thr.pc[th] = "open" /\ thr.read[th] # "none") =>
      thr.read[th] = Connections[th].ssl_hostname

\* C28 witness: both threads have completed a handshake whose callback read a
\* host name, for two different hosts, and hold different extension indices.
C28_Witness ==
  /\ \A th \in Threads : thr.pc[th] = "open" /\ thr.read[th] # "none"
  /\ thr.read[1] # thr.read[2]
  /\ thr.idx[1] # thr.idx[2]

\* C29: under every interleaving of wget_ssl_init and wget_ssl_deinit calls
\* of several threads, with a configuration for which initialization
\* succeeds, the calls exclude one another from the counter test to the
\* counter update: at most one thread is inside a call, at most one shared
\* context is live, and a context is released only while it is live.
C29_LifecycleCallsAreAtomic ==
  /\ [](/\ Cardinality({th \in Threads : thr.pc[th] \in LifecyclePcs}) <= 1
        /\ Cardinality({c \in 1..MaxCtx : ctxs[c].state = "live"}) <= 1)
  /\ [][\A th \in Threads :
          (thr.pc[th] = "deinit_free" /\ thr'.pc[th] = "deinit_count" /\ _init = 1)
            => ctxs[_ctx].state = "live"]_vars

\* C29 witness: a thread is between the counter test and the counter update
\* of wget_ssl_init, holding the only live context, while the other thread
\* has made a call already and waits outside.
C29_Witness ==
  /\ thr.pc[1] = "init_count"
  /\ thr.mutex = 1
  /\ thr.pc[2] = "idle"
  /\ thr.calls[2] > 0
  /\ _init = 0
  /\ CtxLive

\* C31 (as claimed): an open whose lazy initialization failed (the engine is
\* still uninitialized after a wget_ssl_open with valid arguments) never
\* reaches SSL_connect and does not return success.
C31_FailedLazyInitRunsNoHandshake ==
  (last.op = "wget_ssl_open" /\ call.ret # "WGET_E_INVALID" /\ _init = 0) =>
    /\ \A i \in DOMAIN call.trace : call.trace[i] # "SSL_connect"
    /\ call.ret # "WGET_E_SUCCESS"

CaDirectoryCannotBeOpened ==
  /\ NonEmpty(_config.ca_directory)
  /\ _config.ca_directory # "system"
  /\ _config.ca_directory \notin DOMAIN DirEntries

\* C33 (as claimed): when certificate checking is enabled and the configured
\* CA directory cannot be opened, an init of the uninitialized engine fails
\* and leaves the engine uninitialized.
C33_UnopenableDirectoryFailsInit ==
  [][(last'.op = "wget_ssl_init" /\ _init = 0 /\ _config.check_certificate # 0
        /\ CaDirectoryCannotBeOpened) => _init' = 0]_vars

\* C34 (as claimed): whenever crl_file is set and certificate checking is
\* enabled, for every value of ca_directory, an init of the uninitialized
\* engine loads the CRL, and fails, leaving the engine uninitialized, when
\* the CRL cannot be loaded.
C34_CrlLoadedWheneverSet ==
  [][(last'.op = "wget_ssl_init" /\ _init = 0 /\ _config.check_certificate # 0
        /\ _config.crl_file # NULL) =>
       IF CrlFileLoads(_config.crl_file)
         THEN _init' > 0 => ctxs'[_ctx'].crl
         ELSE _init' = 0]_vars

(***************************************************************************)
(* SpecSelector: the priority string is set to each symbolic name, in a    *)
(* mix of upper and lower case, or to a cipher list, and the engine is     *)
(* initialized and de-initialized, on builds with and without TLS 1.3.     *)
(***************************************************************************)
SelectorInputs ==
  {"ssl", "TLSv1", "TLSV1_1", "tlsv1_2", "tlsV1_3", "Auto", "pfs", "HIGH", "auto "}

SelSetProtocol ==
  /\ \E v \in SelectorInputs : SetConfigString("WGET_SSL_SECURE_PROTOCOL", v)
  /\ UNCHANGED hist

SelInit == SslInitIn(GoodEnv) /\ UNCHANGED hist

SelDeinit == SslDeinit /\ UNCHANGED hist

NextSelector == SelSetProtocol \/ SelInit \/ SelDeinit

SpecSelector == Init /\ [][NextSelector]_vars

\* the protocol floor and the cipher list the selector is to give for a
\* priority string, where tls13 is the floor for the name TLSv1_3
SelectorTable(prio, tls13) ==
  LET low == AsciiLower(prio)
      default == "HIGH:!aNULL:!RC4:!MD5:!SRP:!PSK"
  IN  CASE low = "ssl" -> [min_proto |-> "SSL3_VERSION", ciphers |-> default]
        [] low = "tlsv1" -> [min_proto |-> "TLS1_VERSION", ciphers |-> default]
        [] low = "tlsv1_1" -> [min_proto |-> "TLS1_1_VERSION", ciphers |-> default]
        [] low = "tlsv1_3" -> [min_proto |-> tls13, ciphers |-> default]
        [] low \in {"tlsv1_2", "auto"} ->
             [min_proto |-> "TLS1_2_VERSION", ciphers |-> default]
        [] low = "pfs" ->
             [min_proto |-> "TLS1_2_VERSION",
              ciphers |-> "HIGH:!aNULL:!RC4:!MD5:!SRP:!PSK:!kRSA"]
        [] OTHER -> [min_proto |-> "TLS1_2_VERSION", ciphers |-> prio]

\* the context of a successful init agrees with the table
ContextFollows(tls13) ==
  (_init > 0 /\ CtxLive /\ NonEmpty(init_config.secure_protocol)) =>
    /\ ctxs[_ctx].min_proto = SelectorTable(init_config.secure_protocol, tls13).min_proto
    /\ ctxs[_ctx].ciphers = SelectorTable(init_config.secure_protocol, tls13).ciphers

\* C35 (as claimed): the selector compares its input without regard to case;
\* SSL, TLSv1, TLSv1_1 and TLSv1_3 set the minimum protocol to that version
\* with the default cipher list, TLSv1_2 and AUTO keep TLS 1.2 and the
\* default list, PFS keeps TLS 1.2 and adds "!kRSA" to the default list, and
\* any other non-empty string keeps TLS 1.2 and is the cipher list verbatim.
C35_SelectorTable == ContextFollows("TLS1_3_VERSION")

\* C35 (amended): as claimed, except that TLSv1_3 sets the minimum protocol to
\* TLS 1.3 only on a build against OpenSSL 1.1.1 or later; on an older build
\* it keeps TLS 1.2.
C35_SelectorTableOfBuild ==
  ContextFollows(IF build.openssl_1_1_1 THEN "TLS1_3_VERSION" ELSE "TLS1_2_VERSION")

\* C35 witness: on a build without TLS 1.3 an init with the priority string
\* "tlsV1_3" has left the floor at TLS 1.2 with the default cipher list.
C35_Witness ==
  /\ _init > 0 /\ CtxLive
  /\ ~build.openssl_1_1_1
  /\ init_config.secure_protocol = "tlsV1_3"
  /\ ctxs[_ctx].min_proto = "TLS1_2_VERSION"
  /\ ctxs[_ctx].ciphers = "HIGH:!aNULL:!RC4:!MD5:!SRP:!PSK"

\* C36: the resume step returns 0, leaving the TLS state without a session,
\* when no session cache is configured or the cache has no entry for the
\* host; -1 when the back-end cannot deserialize the cached blob, reports it
\* not resumable or cannot install it; and 1 only when the session was
\* installed.  Whatever it returns, the open is not aborted: it goes on to
\* the handshake, and it returns only after SSL_connect was called.
C36_ResumeResultNeverAbortsOpen ==
  /\ ResumeStepDone =>
        LET h == Connections[call.t].ssl_hostname
            cached == _config.tls_session_cache # NIL /\ h \in session_db
        IN  /\ call.resumed \in {-1, 0, 1}
            /\ call.resumed = 0 <=> ~cached
            /\ call.resumed = -1 <=> (cached /\ call.fault # "none")
            /\ call.resumed = 1 <=> ssls[call.ssl].session = h
            /\ call.resumed # 1 => ssls[call.ssl].session = NULL
  /\ last.op = "wget_ssl_open" =>
        /\ call.ret # "WGET_E_UNKNOWN"
        /\ call.pc = "idle" => \E i \in DOMAIN call.trace : call.trace[i] = "SSL_connect"

\* C36 witness: an open whose resume step could not deserialize the cached
\* session has gone through a full handshake and returned success.
C36_Witness ==
  /\ OpenReturned
  /\ call.fault = "d2i_SSL_SESSION"
  /\ call.resumed = -1
  /\ call.ret = "WGET_E_SUCCESS"
  /\ \E i \in DOMAIN call.trace : call.trace[i] = "SSL_connect"
  /\ ssls[call.ssl].session = NULL

====
